---- MODULE Spec2Model ----
(***************************************************************************)
(* Model of the /convert request handler of the blog-to-PDF backend        *)
(* (updated_backend/final_app.py, convert_blog_to_pdf).  Each request is a *)
(* process that walks through the handler one collaborator call at a time; *)
(* the outcome of every collaborator call (fetch, cleanup stages, render   *)
(* backend, temporary files) is chosen by the environment.  The temporary  *)
(* directory is the only state the requests share.                         *)
(***************************************************************************)
EXTENDS Integers, Sequences, FiniteSets, TLC

\* ---------------------------------------------------------------- bounds
\* requests in flight at the same time
NumRequests == 1

Requests == 1..NumRequests

\* requests served at the same time by the threaded server
NumConcurrent == 2

Workers == 1..NumConcurrent


\* ---------------------------------------------------------------- values
None == "None"

\* request bodies: get_json() gives no object, {}, {"url": null},
\* {"url": ""} or {"url": <address>}
Addresses == {"http://example.com/post"}

Bodies ==
    {[json |-> FALSE, hasUrl |-> FALSE, url |-> None]}
    \cup {[json |-> TRUE, hasUrl |-> FALSE, url |-> None]}
    \cup {[json |-> TRUE, hasUrl |-> TRUE, url |-> u] : u \in {None, ""} \cup Addresses}

\* data.get("url")
DictGetUrl(b) == IF b.hasUrl THEN b.url ELSE None

\* Python truthiness of the value tested by `if not blog_url`
Falsy_NoneOnly(v) == v = None

Falsy(v) == v = None \/ v = ""

\* ------------------------------------------------------------ exceptions
\* Python/requests exception classes and their base class
BaseOf(c) ==
    CASE c = "Timeout" -> "RequestException"
      [] c = "ConnectionError" -> "RequestException"
      [] c = "HTTPError" -> "RequestException"
      [] c = "RequestException" -> "OSError"
      [] c = "OSError" -> "Exception"
      [] c = "RuntimeError" -> "Exception"
      [] c = "UnicodeError" -> "Exception"
      [] c = "AttributeError" -> "Exception"
      [] c = "Exception" -> "BaseException"
      [] OTHER -> "BaseException"

RECURSIVE IsInstance(_, _)
IsInstance(c, base) ==
    IF c = base THEN TRUE
    ELSE IF c = "BaseException" THEN FALSE
    ELSE IsInstance(BaseOf(c), base)

NoExc == [cls |-> "none", msg |-> ""]

Exc(c, m) == [cls |-> c, msg |-> m]

\* what requests.get / raise_for_status can raise
FetchFailures ==
    { Exc("Timeout", "slow"), Exc("ConnectionError", "boom"),
      Exc("HTTPError", "Status 404"), Exc("UnicodeError", "bad label") }

\* what pdfkit.from_string / from_file can raise
RenderFailures ==
    { Exc("OSError", "wkhtmltopdf reported an error"),
      Exc("RuntimeError", "pdfkit failed") }

\* ------------------------------------------------------------- responses
Json(code, parts) == [status |-> code, error |-> parts, data |-> <<>>]

MissingAddress == Json(400, <<"No URL provided">>)

FetchTimeout == Json(504, <<"Request timed out while loading the blog.">>)

FetchFailed(e) == Json(400, <<"Failed to fetch blog: ", e.msg>>)

InternalError == Json(500, <<"Internal server error">>)

\* send_file(tmp_pdf_path, ...)
Success(bytes) == [status |-> 200, error |-> <<>>, data |-> bytes]

\* the two except clauses around the fetch: which exceptions they catch ...
FetchCaught_TimeoutOnly(e) == IsInstance(e.cls, "Timeout")

FetchCaught(e) ==
    IsInstance(e.cls, "Timeout") \/ IsInstance(e.cls, "RequestException")

\* ... and what the first matching clause, in source order, returns
FetchErrorResponse_GenericFirst(e) ==
    IF IsInstance(e.cls, "RequestException") THEN FetchFailed(e)
    ELSE FetchTimeout

FetchErrorResponse(e) ==
    IF IsInstance(e.cls, "Timeout") THEN FetchTimeout
    ELSE FetchFailed(e)

\* `except OSError` around pdfkit.from_string
TriggersFallback_AnyException(e) == IsInstance(e.cls, "Exception")

TriggersFallback(e) == IsInstance(e.cls, "OSError")

\* the outermost `except Exception`
OuterCatches_OnlyOSError(e) == IsInstance(e.cls, "OSError")

OuterCatches(e) == IsInstance(e.cls, "Exception")

\* ---------------------------------------------------------------- markup
\* The handler only passes markup from one stage to the next, so a markup
\* value is the sequence of tokens that tells which stage calls produced it
\* from which fetched page.
Pages == {<<"<html><body>hello</body></html>">>}

AdsRemovedOf(h, url) == <<"remove_ads_from_html">> \o h

PlatformCleanedOf(h, url) == <<"clean_platform_specific">> \o h

\* metadata = extract_metadata(html, source_url=blog_url): which markup and
\* which address the metadata was read from
MetadataOf_Raw(h, url) == <<"extract_metadata", url>> \o <<h[Len(h)]>>

MetadataOf(h, url) == <<"extract_metadata", url>> \o h

\* enriched_html = inject_metadata_into_html(html, metadata, css=custom_css)
EnrichedOf(h, m, css) ==
    <<"inject_metadata_into_html", css>> \o m \o <<"of">> \o h

\* the intermediate file: the enriched markup with a base tag
FallbackContent(enriched, url) == <<"<base href=", url, ">">> \o enriched

\* custom_css as loaded from CSS_FILE
CustomCss(exists) == IF exists THEN "<style>pdf-style.css</style>" ELSE ""

\* what the render backend writes for a given input
RenderBytes(input) == <<"%PDF">> \o input

\* what a failed render may leave in the output file
PartialOutputs == {<<>>, <<"%PDF-truncated">>}

\* ------------------------------------------------------ temporary directory
EmptyFs == [n \in {} |-> 0]

File(r, sfx, d) == [owner |-> r, suffix |-> sfx, data |-> d]

Exists(dir, n) == n \in DOMAIN dir

WriteFile(dir, n, f) == [m \in DOMAIN dir \cup {n} |-> IF m = n THEN f ELSE dir[m]]

RemoveFile(dir, n) == [m \in DOMAIN dir \ {n} |-> dir[m]]


\* ------------------------------------------------------------------ state
VARIABLES
    pc,             \* position of each request in the handler
    body,           \* request.get_json()
    blog_url,       \* data.get("url")
    html,           \* the markup being processed
    metadata,       \* result of extract_metadata
    enriched_html,  \* result of inject_metadata_into_html
    tmp_pdf_path,   \* name of the output file, 0 before it exists
    tmp_html_path,  \* name of the intermediate file, 0 before it exists
    pending,        \* exception in flight while the finally block runs
    calls,          \* collaborator calls made so far, with their outcome
    produced,       \* bytes written by the last successful render
    responses,      \* responses returned to the caller
    escaped,        \* an exception left the handler
    fs,             \* the temporary directory: name -> file
    css_exists,     \* os.path.exists(CSS_FILE)
    pure            \* arguments and result of a function applied on its own

vars == <<pc, body, blog_url, html, metadata, enriched_html, tmp_pdf_path,
          tmp_html_path, pending, calls, produced, responses, escaped, fs,
          css_exists, pure>>

\* names the temporary directory can hand out: one for the output file of
\* every request in the handler and one more, so that intermediate files
\* compete for names and the name of a removed file is handed out again
TempNames == 1..(Cardinality(DOMAIN pc) + 1)

\* tempfile.NamedTemporaryFile never returns the name of an existing file
FreshNames_Any(dir) == TempNames

FreshNames(dir) == TempNames \ DOMAIN dir

\* no function is applied outside a request
NotApplied == [fn |-> "none"]

NoBody == [json |-> FALSE, hasUrl |-> FALSE, url |-> "unset"]

Init ==
    /\ pc = [r \in Requests |-> "start"]
    /\ body = [r \in Requests |-> NoBody]
    /\ blog_url = [r \in Requests |-> None]
    /\ html = [r \in Requests |-> <<>>]
    /\ metadata = [r \in Requests |-> <<>>]
    /\ enriched_html = [r \in Requests |-> <<>>]
    /\ tmp_pdf_path = [r \in Requests |-> 0]
    /\ tmp_html_path = [r \in Requests |-> 0]
    /\ pending = [r \in Requests |-> NoExc]
    /\ calls = [r \in Requests |-> <<>>]
    /\ produced = [r \in Requests |-> <<>>]
    /\ responses = [r \in Requests |-> <<>>]
    /\ escaped = [r \in Requests |-> FALSE]
    /\ fs = EmptyFs
    /\ css_exists \in BOOLEAN
    /\ pure = NotApplied

\* ---------------------------------------------------------------- helpers
Call(name, e) == [call |-> name, raised |-> e.cls]

Record(r, name, e) == calls' = [calls EXCEPT ![r] = Append(@, Call(name, e))]

Goto(r, where) == pc' = [pc EXCEPT ![r] = where]

\* return a response from the handler
Return(r, resp) ==
    /\ Goto(r, "done")
    /\ responses' = [responses EXCEPT ![r] = Append(@, resp)]
    /\ UNCHANGED escaped

\* an exception reaches the outermost try block
Unhandled(r, e) ==
    IF OuterCatches(e)
    THEN Return(r, InternalError)
    ELSE /\ Goto(r, "done")
         /\ escaped' = [escaped EXCEPT ![r] = TRUE]
         /\ UNCHANGED responses

Continue(r, where) ==
    /\ Goto(r, where)
    /\ UNCHANGED <<responses, escaped>>

\* ---------------------------------------------------------------- actions
\* data = request.get_json(); blog_url = data.get("url"); if not blog_url
ParseRequest(r) ==
    /\ pc[r] = "start"
    /\ \E b \in Bodies :
        /\ body' = [body EXCEPT ![r] = b]
        /\ IF ~b.json
           THEN /\ Unhandled(r, Exc("AttributeError", "NoneType has no get"))
                /\ UNCHANGED blog_url
           ELSE /\ blog_url' = [blog_url EXCEPT ![r] = DictGetUrl(b)]
                /\ IF Falsy(DictGetUrl(b))
                   THEN Return(r, MissingAddress)
                   ELSE Continue(r, "fetch")
    /\ UNCHANGED <<html, metadata, enriched_html, tmp_pdf_path, tmp_html_path,
                   pending, calls, produced, fs, css_exists, pure>>

\* resp = requests.get(...); resp.raise_for_status(); html = resp.text
Fetch(r) ==
    /\ pc[r] = "fetch"
    /\ \/ \E p \in Pages :
            /\ html' = [html EXCEPT ![r] = p]
            /\ Record(r, "fetch", NoExc)
            /\ Continue(r, "remove_ads")
       \/ \E e \in FetchFailures :
            /\ Record(r, "fetch", e)
            /\ IF FetchCaught(e)
               THEN Return(r, FetchErrorResponse(e))
               ELSE Unhandled(r, e)
            /\ UNCHANGED html
    /\ UNCHANGED <<body, blog_url, metadata, enriched_html, tmp_pdf_path,
                   tmp_html_path, pending, produced, fs, css_exists, pure>>

\* what a cleanup stage leaves in html when it raises
AfterStageFailure_Empty(h) == <<>>

AfterStageFailure(h) == h

\* 1) html = remove_ads_from_html(html, source_url=blog_url), failure logged
RemoveAds(r) ==
    /\ pc[r] = "remove_ads"
    /\ \/ /\ html' = [html EXCEPT ![r] = AdsRemovedOf(@, blog_url[r])]
          /\ Record(r, "remove_ads_from_html", NoExc)
       \/ /\ html' = [html EXCEPT ![r] = AfterStageFailure(@)]
          /\ Record(r, "remove_ads_from_html", Exc("Exception", "ads fail"))
    /\ Continue(r, "platform")
    /\ UNCHANGED <<body, blog_url, metadata, enriched_html, tmp_pdf_path,
                   tmp_html_path, pending, produced, fs, css_exists, pure>>

\* 2) html = clean_platform_specific(html, blog_url), failure logged
PlatformCleanup(r) ==
    /\ pc[r] = "platform"
    /\ \/ /\ html' = [html EXCEPT ![r] = PlatformCleanedOf(@, blog_url[r])]
          /\ Record(r, "clean_platform_specific", NoExc)
       \/ /\ html' = [html EXCEPT ![r] = AfterStageFailure(@)]
          /\ Record(r, "clean_platform_specific", Exc("Exception", "cleanup fail"))
    /\ Continue(r, "metadata")
    /\ UNCHANGED <<body, blog_url, metadata, enriched_html, tmp_pdf_path,
                   tmp_html_path, pending, produced, fs, css_exists, pure>>

\* 3) metadata = extract_metadata(html, source_url=blog_url), not guarded
ExtractMetadata_Guarded(r) ==
    /\ pc[r] = "metadata"
    /\ \/ /\ metadata' = [metadata EXCEPT ![r] = MetadataOf(html[r], blog_url[r])]
          /\ Record(r, "extract_metadata", NoExc)
       \/ /\ Record(r, "extract_metadata", Exc("RuntimeError", "big boom"))
          /\ UNCHANGED metadata
    /\ Continue(r, "inject")
    /\ UNCHANGED <<body, blog_url, html, enriched_html, tmp_pdf_path,
                   tmp_html_path, pending, produced, fs, css_exists, pure>>

ExtractMetadata(r) ==
    /\ pc[r] = "metadata"
    /\ \/ /\ metadata' = [metadata EXCEPT ![r] = MetadataOf(html[r], blog_url[r])]
          /\ Record(r, "extract_metadata", NoExc)
          /\ Continue(r, "inject")
       \/ /\ Record(r, "extract_metadata", Exc("RuntimeError", "big boom"))
          /\ Unhandled(r, Exc("RuntimeError", "big boom"))
          /\ UNCHANGED metadata
    /\ UNCHANGED <<body, blog_url, html, enriched_html, tmp_pdf_path,
                   tmp_html_path, pending, produced, fs, css_exists, pure>>

\* 4) + 5) custom_css, enriched_html = inject_metadata_into_html(...)
InjectMetadata(r) ==
    /\ pc[r] = "inject"
    /\ \/ /\ enriched_html' = [enriched_html EXCEPT ![r] =
                EnrichedOf(html[r], metadata[r], CustomCss(css_exists))]
          /\ Record(r, "inject_metadata_into_html", NoExc)
          /\ Continue(r, "tmp_pdf")
       \/ /\ Record(r, "inject_metadata_into_html", Exc("Exception", "re.error"))
          /\ Unhandled(r, Exc("Exception", "re.error"))
          /\ UNCHANGED enriched_html
    /\ UNCHANGED <<body, blog_url, html, metadata, tmp_pdf_path,
                   tmp_html_path, pending, produced, fs, css_exists, pure>>

\* with tempfile.NamedTemporaryFile(delete=False, suffix=".pdf") as tmp_pdf
CreateTmpPdf(r) ==
    /\ pc[r] = "tmp_pdf"
    /\ \/ \E n \in FreshNames(fs) :
            /\ fs' = WriteFile(fs, n, File(r, ".pdf", <<>>))
            /\ tmp_pdf_path' = [tmp_pdf_path EXCEPT ![r] = n]
            /\ Continue(r, "primary")
       \/ /\ Unhandled(r, Exc("OSError", "No space left on device"))
          /\ UNCHANGED <<fs, tmp_pdf_path>>
    /\ UNCHANGED <<body, blog_url, html, metadata, enriched_html,
                   tmp_html_path, pending, calls, produced, css_exists, pure>>

\* pdfkit.from_string(enriched_html, tmp_pdf_path, ...) / except OSError
PrimaryRender(r) ==
    /\ pc[r] = "primary"
    /\ \/ /\ fs' = WriteFile(fs, tmp_pdf_path[r],
                       File(r, ".pdf", RenderBytes(enriched_html[r])))
          /\ produced' = [produced EXCEPT ![r] = RenderBytes(enriched_html[r])]
          /\ Record(r, "from_string", NoExc)
          /\ Continue(r, "send")
       \/ \E e \in RenderFailures, part \in PartialOutputs :
            /\ fs' = WriteFile(fs, tmp_pdf_path[r], File(r, ".pdf", part))
            /\ Record(r, "from_string", e)
            /\ IF TriggersFallback(e)
               THEN Continue(r, "fallback_prepare")
               ELSE Unhandled(r, e)
            /\ UNCHANGED produced
    /\ UNCHANGED <<body, blog_url, html, metadata, enriched_html, tmp_pdf_path,
                   tmp_html_path, pending, css_exists, pure>>

\* with tempfile.NamedTemporaryFile(delete=False, suffix=".html", ...):
\*     base tag inserted, content written, tmp_html_path = tmp_html.name
FallbackPrepare(r) ==
    /\ pc[r] = "fallback_prepare"
    /\ \/ \E n \in FreshNames(fs) :
            /\ fs' = WriteFile(fs, n,
                  File(r, ".html", FallbackContent(enriched_html[r], blog_url[r])))
            /\ tmp_html_path' = [tmp_html_path EXCEPT ![r] = n]
            /\ Record(r, "write_tmp_html", NoExc)
            /\ Continue(r, "fallback")
       \/ \E n \in FreshNames(fs) :
            \* re.sub or write raises after the file was created: the with
            \* block closes the file and delete=False keeps it
            /\ fs' = WriteFile(fs, n, File(r, ".html", <<>>))
            /\ Record(r, "write_tmp_html", Exc("Exception", "re.error"))
            /\ Unhandled(r, Exc("Exception", "re.error"))
            /\ UNCHANGED tmp_html_path
       \/ /\ Record(r, "create_tmp_html", Exc("OSError", "No space left on device"))
          /\ Unhandled(r, Exc("OSError", "No space left on device"))
          /\ UNCHANGED <<fs, tmp_html_path>>
    /\ UNCHANGED <<body, blog_url, html, metadata, enriched_html, tmp_pdf_path,
                   pending, produced, css_exists, pure>>

\* try: pdfkit.from_file(tmp_html_path, tmp_pdf_path, ...)
FallbackRender(r) ==
    /\ pc[r] = "fallback"
    /\ \/ /\ Exists(fs, tmp_html_path[r])
          /\ fs' = WriteFile(fs, tmp_pdf_path[r],
                       File(r, ".pdf", RenderBytes(fs[tmp_html_path[r]].data)))
          /\ produced' = [produced EXCEPT ![r] = RenderBytes(fs[tmp_html_path[r]].data)]
          /\ Record(r, "from_file", NoExc)
          /\ UNCHANGED pending
       \/ \E e \in RenderFailures, part \in PartialOutputs :
            /\ fs' = WriteFile(fs, tmp_pdf_path[r], File(r, ".pdf", part))
            /\ Record(r, "from_file", e)
            /\ pending' = [pending EXCEPT ![r] = e]
            /\ UNCHANGED produced
    /\ Continue(r, "remove_html")
    /\ UNCHANGED <<body, blog_url, html, metadata, enriched_html, tmp_pdf_path,
                   tmp_html_path, css_exists, pure>>

\* finally: try: os.remove(tmp_html_path) except Exception: pass
RemoveTmpHtml(r) ==
    /\ pc[r] = "remove_html"
    /\ \/ /\ fs' = RemoveFile(fs, tmp_html_path[r])
          /\ Record(r, "os.remove", NoExc)
       \/ /\ fs' = fs
          /\ Record(r, "os.remove", Exc("OSError", "Permission denied"))
    /\ IF pending[r] = NoExc
       THEN Continue(r, "send")
       ELSE Unhandled(r, pending[r])
    /\ UNCHANGED <<body, blog_url, html, metadata, enriched_html, tmp_pdf_path,
                   tmp_html_path, pending, produced, css_exists, pure>>

\* the file handed to send_file
SendFilePath_Html(r) == tmp_html_path[r]

SendFilePath(r) == tmp_pdf_path[r]

\* return send_file(tmp_pdf_path, as_attachment=True, download_name="blog.pdf")
SendFile(r) ==
    /\ pc[r] = "send"
    /\ IF Exists(fs, SendFilePath(r))
       THEN Return(r, Success(fs[SendFilePath(r)].data))
       ELSE Unhandled(r, Exc("OSError", "No such file"))
    /\ UNCHANGED <<body, blog_url, html, metadata, enriched_html, tmp_pdf_path,
                   tmp_html_path, pending, calls, produced, fs, css_exists, pure>>

Step(r) ==
    \/ ParseRequest(r)
    \/ Fetch(r)
    \/ RemoveAds(r)
    \/ PlatformCleanup(r)
    \/ ExtractMetadata(r)
    \/ InjectMetadata(r)
    \/ CreateTmpPdf(r)
    \/ PrimaryRender(r)
    \/ FallbackPrepare(r)
    \/ FallbackRender(r)
    \/ RemoveTmpHtml(r)
    \/ SendFile(r)

Next == \E r \in Requests : Step(r)

Spec == Init /\ [][Next]_vars

\* ------------------------------------------------- concurrent requests
\* the address each concurrent request was made for
WorkerAddress(w) ==
    IF w = 1 THEN "http://a.example/post"
    ELSE IF w = 2 THEN "http://b.example/post"
    ELSE "http://c.example/post"

\* the markup of a request whose stages before the render all succeeded
WorkerMarkup(w) ==
    PlatformCleanedOf(
        AdsRemovedOf(<<"<html><body>hello</body></html>">>,
                             WorkerAddress(w)),
        WorkerAddress(w))

\* Several requests are in the handler at once, each in its own thread with
\* its own local variables; every one of them has passed the stages that
\* touch nothing but those locals and is about to create its output file.
ConcurrentInit ==
    /\ pc = [w \in Workers |-> "tmp_pdf"]
    /\ body = [w \in Workers |->
                  [json |-> TRUE, hasUrl |-> TRUE, url |-> WorkerAddress(w)]]
    /\ blog_url = [w \in Workers |-> WorkerAddress(w)]
    /\ html = [w \in Workers |-> WorkerMarkup(w)]
    /\ metadata = [w \in Workers |-> MetadataOf(WorkerMarkup(w), WorkerAddress(w))]
    /\ css_exists = FALSE
    /\ enriched_html = [w \in Workers |->
          EnrichedOf(WorkerMarkup(w),
                     MetadataOf(WorkerMarkup(w), WorkerAddress(w)),
                     CustomCss(css_exists))]
    /\ tmp_pdf_path = [w \in Workers |-> 0]
    /\ tmp_html_path = [w \in Workers |-> 0]
    /\ pending = [w \in Workers |-> NoExc]
    /\ calls = [w \in Workers |->
          <<Call("fetch", NoExc), Call("remove_ads_from_html", NoExc),
            Call("clean_platform_specific", NoExc),
            Call("extract_metadata", NoExc),
            Call("inject_metadata_into_html", NoExc)>>]
    /\ produced = [w \in Workers |-> <<>>]
    /\ responses = [w \in Workers |-> <<>>]
    /\ escaped = [w \in Workers |-> FALSE]
    /\ fs = EmptyFs
    /\ pure = NotApplied

RenderStep(w) ==
    \/ CreateTmpPdf(w)
    \/ PrimaryRender(w)
    \/ FallbackPrepare(w)
    \/ FallbackRender(w)
    \/ RemoveTmpHtml(w)
    \/ SendFile(w)

ConcurrentNext == \E w \in Workers : RenderStep(w)

ConcurrentSpec == ConcurrentInit /\ [][ConcurrentNext]_vars

\* ------------------------------------------------------- reading the state
Done(r) == pc[r] = "done"

Failed(c) == c.raised # "none"

CallsOf(r, name) == {i \in 1..Len(calls[r]) : calls[r][i].call = name}

FailedCallsOf(r, name) == {i \in CallsOf(r, name) : Failed(calls[r][i])}

\* files of the temporary directory created by request r
FilesOf(r, sfx) == {n \in DOMAIN fs : fs[n].owner = r /\ fs[n].suffix = sfx}

\* the response of a finished request
Response(r) == responses[r][1]

IsJsonError(resp) == resp.status # 200 /\ resp.error # <<>> /\ resp.data = <<>>

\* the request ended in an error after the render stage made its first attempt
RenderFailureReported(r) ==
    /\ Done(r)
    /\ responses[r] # <<>>
    /\ Response(r).status # 200
    /\ CallsOf(r, "from_string") # {}

PrimaryIOFailed(r) ==
    \E i \in CallsOf(r, "from_string") : IsInstance(calls[r][i].raised, "OSError")

PrimaryOtherFailed(r) ==
    \E i \in CallsOf(r, "from_string") :
        Failed(calls[r][i]) /\ ~IsInstance(calls[r][i].raised, "OSError")

\* creating or writing the intermediate file raised
PrepareFailed(r) ==
    FailedCallsOf(r, "create_tmp_html") # {} \/ FailedCallsOf(r, "write_tmp_html") # {}

\* the attempts of the render stage are ordered as the state machine says
RenderAttemptsOrdered(r) ==
    /\ Cardinality(CallsOf(r, "from_string")) <= 1
    /\ Cardinality(CallsOf(r, "from_file")) <= 1
    /\ pc[r] \in {"fallback_prepare", "fallback", "remove_html", "send"}
          => Cardinality(CallsOf(r, "from_string")) = 1
    /\ \A i \in CallsOf(r, "from_file") :
          \E j \in CallsOf(r, "from_string") :
              j < i /\ IsInstance(calls[r][j].raised, "OSError")
    /\ (\E j \in CallsOf(r, "from_string") : ~Failed(calls[r][j]))
          => CallsOf(r, "from_file") = {}

\* ------------------------------------------------------------------ claims

\* C1 (as stated): the primary render is attempted first and exactly once,
\* the fallback at most once and only after the primary failed with an
\* OSError, never after a primary success, and a failure of the render stage
\* is reported only after the fallback attempt has also failed.
C1_FailureOnlyAfterFallback ==
    \A r \in Requests :
        /\ RenderAttemptsOrdered(r)
        /\ RenderFailureReported(r) => FailedCallsOf(r, "from_file") # {}

\* C1 (amended): the same order of attempts; once the primary attempt was
\* made, an error is reported only after the fallback attempt has failed,
\* or, with no fallback attempt, after the primary attempt failed with a
\* failure that is not an OSError or after preparing the intermediate file
\* failed.
C1_RenderStateMachine ==
    \A r \in Requests :
        /\ RenderAttemptsOrdered(r)
        /\ RenderFailureReported(r) =>
              \/ FailedCallsOf(r, "from_file") # {}
              \/ PrimaryOtherFailed(r) /\ CallsOf(r, "from_file") = {}
              \/ PrimaryIOFailed(r) /\ PrepareFailed(r) /\ CallsOf(r, "from_file") = {}

C1_Witness ==
    \E r \in Requests :
        /\ RenderFailureReported(r)
        /\ PrimaryIOFailed(r)
        /\ FailedCallsOf(r, "from_file") # {}

\* C2: when the primary render raises an OSError and the fallback render
\* succeeds, the request ends with status 200 and the bytes returned are the
\* bytes the fallback render produced from the intermediate file.
C2_FallbackBytesReturned ==
    \A r \in Requests :
        ( /\ Done(r)
          /\ PrimaryIOFailed(r)
          /\ \E i \in CallsOf(r, "from_file") : ~Failed(calls[r][i]) )
        => /\ responses[r] = <<Success(produced[r])>>
           /\ produced[r] =
                 RenderBytes(FallbackContent(enriched_html[r], blog_url[r]))

C2_Witness ==
    \E r \in Requests :
        /\ Done(r)
        /\ PrimaryIOFailed(r)
        /\ \E i \in CallsOf(r, "from_file") : ~Failed(calls[r][i])
        /\ Response(r).status = 200
        /\ \E n \in FilesOf(r, ".pdf") : fs[n].data = Response(r).data

\* C3: when a request that entered the fallback path has returned, the
\* intermediate markup file it created no longer exists.
C3_TempHtmlRemoved ==
    \A r \in Requests : Done(r) => FilesOf(r, ".html") = {}

\* C4: a primary render failure that is not an OSError is fatal at once: no
\* intermediate file is prepared, the fallback render is not invoked and the
\* request ends with a JSON error whose status is not 200.
C4_NonIOFailureIsFatal ==
    \A r \in Requests :
        PrimaryOtherFailed(r) =>
            /\ Done(r)
            /\ FilesOf(r, ".html") = {}
            /\ CallsOf(r, "from_file") = {}
            /\ CallsOf(r, "write_tmp_html") = {}
            /\ CallsOf(r, "create_tmp_html") = {}
            /\ Len(responses[r]) = 1
            /\ IsJsonError(Response(r))

C4_Witness ==
    \E r \in Requests :
        PrimaryOtherFailed(r) /\ Done(r) /\ Response(r).status = 500

\* C5: when the fallback render fails, the request ends with an error that
\* differs from the InternalError response and whose message carries the
\* diagnostic text of the render backend.
C5_RenderFailedCarriesDiagnostic ==
    \A r \in Requests :
        (Done(r) /\ FailedCallsOf(r, "from_file") # {}) =>
            /\ Len(responses[r]) = 1
            /\ Response(r) # InternalError
            /\ \E k \in 1..Len(Response(r).error) :
                  Response(r).error[k] = pending[r].msg

\* C6: a request whose body has no url key, a null url or an empty url is
\* answered 400 'No URL provided' without any collaborator call and without
\* creating a temporary file.
C6_MissingAddress ==
    \A r \in Requests :
        ( /\ pc[r] # "start"
          /\ body[r].json
          /\ (~body[r].hasUrl \/ body[r].url = None \/ body[r].url = "") )
        => /\ Done(r)
           /\ responses[r] = <<Json(400, <<"No URL provided">>)>>
           /\ calls[r] = <<>>
           /\ FilesOf(r, ".pdf") = {} /\ FilesOf(r, ".html") = {}
           /\ html[r] = <<>> /\ enriched_html[r] = <<>>

C6_Witness ==
    \E r \in Requests :
        /\ Done(r)
        /\ body[r].json /\ body[r].hasUrl /\ body[r].url = ""
        /\ Response(r).status = 400

\* C7: when the fetch raises a timeout the request ends with status 504,
\* not 500 and not 400, and nothing runs after the fetch.
C7_FetchTimeout ==
    \A r \in Requests :
        (\E i \in CallsOf(r, "fetch") : calls[r][i].raised = "Timeout") =>
            /\ Done(r)
            /\ Len(responses[r]) = 1
            /\ Response(r).status = 504
            /\ IsJsonError(Response(r))
            /\ Len(calls[r]) = 1
            /\ FilesOf(r, ".pdf") = {} /\ FilesOf(r, ".html") = {}

C7_Witness ==
    \E r \in Requests :
        /\ Done(r)
        /\ \E i \in CallsOf(r, "fetch") : calls[r][i].raised = "Timeout"
        /\ Response(r) = FetchTimeout

ErrorOutcomes ==
    {MissingAddress, FetchTimeout, InternalError}
    \cup {FetchFailed(e) : e \in FetchFailures}

\* C9: every request ends with exactly one outcome, a success with bytes or
\* one of the JSON errors; no exception leaves the handler, the handler is
\* never stuck before it returns, and every error has a non-empty message.
C9_ExactlyOneOutcome ==
    \A r \in Requests :
        /\ ~escaped[r]
        /\ Len(responses[r]) <= 1
        /\ Done(r) <=> Len(responses[r]) = 1
        /\ ~Done(r) => ENABLED Step(r)
        /\ Done(r) =>
              \/ Response(r).status = 200 /\ Response(r).data # <<>>
              \/ Response(r) \in ErrorOutcomes /\ IsJsonError(Response(r))

C9_Witness ==
    \E r \in Requests :
        /\ Done(r)
        /\ ~body[r].json
        /\ Response(r) = InternalError

\* C10 (as stated): a failure inside remove_ads_from_html,
\* clean_platform_specific or extract_metadata never ends the request: the
\* markup stays as it was and the next stage runs.
C10_ThreeStagesDegrade ==
    [][\A r \in Requests :
          ( /\ pc[r] \in {"remove_ads", "platform", "metadata"}
            /\ pc'[r] # pc[r]
            /\ Failed(calls'[r][Len(calls'[r])]) )
          => /\ html'[r] = html[r]
             /\ pc'[r] = CASE pc[r] = "remove_ads" -> "platform"
                           [] pc[r] = "platform" -> "metadata"
                           [] OTHER -> "inject"]_vars

\* C10 (amended): a failure inside remove_ads_from_html or
\* clean_platform_specific never ends the request: the markup stays as it
\* was before the stage and the next stage runs.
C10_CleanupStagesDegrade ==
    [][\A r \in Requests :
          ( /\ pc[r] \in {"remove_ads", "platform"}
            /\ pc'[r] # pc[r]
            /\ Failed(calls'[r][Len(calls'[r])]) )
          => /\ html'[r] = html[r]
             /\ pc'[r] = (IF pc[r] = "remove_ads" THEN "platform" ELSE "metadata")]_vars

C10_Witness ==
    \E r \in Requests :
        /\ FailedCallsOf(r, "remove_ads_from_html") # {}
        /\ FailedCallsOf(r, "clean_platform_specific") # {}
        /\ Done(r)
        /\ Response(r).status = 200

\* C11: when extract_metadata raises for a fetched page the request ends
\* with the 500 JSON error and no render attempt is made.
C11_MetadataFailureIsInternalError ==
    \A r \in Requests :
        FailedCallsOf(r, "extract_metadata") # {} =>
            /\ Done(r)
            /\ responses[r] = <<Json(500, <<"Internal server error">>)>>
            /\ CallsOf(r, "fetch") # {} /\ FailedCallsOf(r, "fetch") = {}
            /\ CallsOf(r, "inject_metadata_into_html") = {}
            /\ CallsOf(r, "from_string") = {}
            /\ CallsOf(r, "from_file") = {}
            /\ FilesOf(r, ".pdf") = {} /\ FilesOf(r, ".html") = {}

C11_Witness ==
    \E r \in Requests :
        /\ FailedCallsOf(r, "extract_metadata") # {}
        /\ Done(r)
        /\ Response(r).status = 500

\* the stage calls of a request that reached the primary render, in order
PipelineOrder ==
    <<"fetch", "remove_ads_from_html", "clean_platform_specific",
      "extract_metadata", "inject_metadata_into_html", "from_string">>

\* the markup after the two cleanup stages, given which of them succeeded
CleanedMarkup(r, page) ==
    LET afterAds == IF Failed(calls[r][2]) THEN page
                    ELSE <<"remove_ads_from_html">> \o page
    IN IF Failed(calls[r][3]) THEN afterAds
       ELSE <<"clean_platform_specific">> \o afterAds

\* C12: in a request that reaches rendering the stages ran once each in the
\* order fetch, remove_ads_from_html, clean_platform_specific,
\* extract_metadata, inject_metadata_into_html, render; the metadata is read
\* from the cleaned markup and the markup given to the render backend is
\* the injector's output for the cleaned markup and that metadata.
C12_StagesInOrder ==
    \A r \in Requests :
        CallsOf(r, "from_string") # {} =>
            /\ Len(calls[r]) >= 6
            /\ \A i \in 1..6 : calls[r][i].call = PipelineOrder[i]
            /\ \A i \in 7..Len(calls[r]) :
                  calls[r][i].call \notin {PipelineOrder[k] : k \in 1..6}
            /\ \E page \in Pages :
                  /\ html[r] = CleanedMarkup(r, page)
                  /\ metadata[r] =
                        <<"extract_metadata", blog_url[r]>> \o CleanedMarkup(r, page)
                  /\ enriched_html[r] =
                        <<"inject_metadata_into_html", CustomCss(css_exists)>>
                           \o metadata[r] \o <<"of">> \o CleanedMarkup(r, page)
            /\ ~Failed(calls[r][6]) => produced[r] = <<"%PDF">> \o enriched_html[r]

C12_Witness ==
    \E r \in Requests :
        /\ Done(r)
        /\ Response(r).status = 200
        /\ CallsOf(r, "from_file") = {}
        /\ ~Failed(calls[r][2]) /\ ~Failed(calls[r][3])
        /\ Response(r).data = <<"%PDF">> \o enriched_html[r]

\* the intermediate file of w is in use: written and not yet removed
HtmlInUse(w) == pc[w] \in {"fallback", "remove_html"}

\* the temporary names w holds
NamesHeld(w) ==
    ({tmp_pdf_path[w]} \ {0})
    \cup (IF HtmlInUse(w) THEN {tmp_html_path[w]} ELSE {})

\* what a request returns, from its own markup, address and render results
OwnOutcome(w) ==
    IF \E i \in CallsOf(w, "from_string") : ~Failed(calls[w][i])
    THEN [status |-> 200, error |-> <<>>,
          data |-> <<"%PDF">> \o enriched_html[w]]
    ELSE IF \E i \in CallsOf(w, "from_file") : ~Failed(calls[w][i])
    THEN [status |-> 200, error |-> <<>>,
          data |-> <<"%PDF", "<base href=", WorkerAddress(w), ">">>
                      \o enriched_html[w]]
    ELSE [status |-> 500, error |-> <<"Internal server error">>, data |-> <<>>]

\* the request whose thread took the step
Acting(w) == pc'[w] # pc[w]

\* C13 (state part): requests in flight hold distinct temporary names, each
\* name a request holds is a file it created itself, the intermediate file
\* holds its own markup, and the response of a finished request is the
\* outcome of its own inputs and its own collaborator results.
C13_OwnArtefacts ==
    \A w \in Workers :
        /\ \A v \in Workers \ {w} : NamesHeld(w) \cap NamesHeld(v) = {}
        /\ \A n \in NamesHeld(w) : n \in DOMAIN fs /\ fs[n].owner = w
        /\ tmp_pdf_path[w] # 0 => fs[tmp_pdf_path[w]].suffix = ".pdf"
        /\ HtmlInUse(w) =>
              /\ tmp_html_path[w] # tmp_pdf_path[w]
              /\ fs[tmp_html_path[w]].data =
                    <<"<base href=", WorkerAddress(w), ">">> \o enriched_html[w]
        /\ Done(w) => responses[w] = <<OwnOutcome(w)>> /\ ~escaped[w]

\* C13 (step part): a step of one request creates, overwrites or deletes
\* only files of that request, reads only such files, and leaves the other
\* requests' variables as they were.
C13_StepTouchesOwnFiles ==
    \A w \in Workers :
        Acting(w) =>
            /\ \A n \in DOMAIN fs :
                  (n \notin DOMAIN fs' \/ fs'[n] # fs[n]) => fs[n].owner = w
            /\ \A n \in DOMAIN fs' \ DOMAIN fs : fs'[n].owner = w
            /\ pc[w] = "fallback" => fs[tmp_html_path[w]].owner = w
            /\ pc[w] = "send" => fs[tmp_pdf_path[w]].owner = w
            /\ \A v \in Workers \ {w} :
                  /\ pc'[v] = pc[v] /\ calls'[v] = calls[v]
                  /\ responses'[v] = responses[v] /\ produced'[v] = produced[v]
                  /\ tmp_pdf_path'[v] = tmp_pdf_path[v]
                  /\ tmp_html_path'[v] = tmp_html_path[v]
                  /\ enriched_html'[v] = enriched_html[v]

WhitespaceAtoms == {" ", "\n"}

IsSpace(a) == a \in WhitespaceAtoms

\* the value None where a string may stand
Absent == <<None>>

\* bool(s) of an optional string
Truthy(s) == s # Absent /\ s # <<>>

\* a or b
Or(a, b) == IF Truthy(a) THEN a ELSE b

\* s is empty or holds only whitespace
IsBlank(s) == \A i \in 1..Len(s) : IsSpace(s[i])

RECURSIVE LStrip(_)
LStrip(s) == IF s # <<>> /\ IsSpace(Head(s)) THEN LStrip(Tail(s)) ELSE s

RECURSIVE RStrip(_)
RStrip(s) ==
    IF s # <<>> /\ IsSpace(s[Len(s)]) THEN RStrip(SubSeq(s, 1, Len(s) - 1)) ELSE s

\* str.strip()
Strip(s) == RStrip(LStrip(s))

\* re.sub(r"\s+", " ", s)
RECURSIVE CollapseWhitespace(_)
CollapseWhitespace(s) ==
    IF s = <<>> THEN <<>>
    ELSE IF IsSpace(Head(s))
    THEN <<" ">> \o CollapseWhitespace(LStrip(s))
    ELSE <<Head(s)>> \o CollapseWhitespace(Tail(s))

\* str.title() of one word
TitleWord(a) ==
    CASE a \in {"jane", "JANE", "Jane"} -> "Jane"
      [] a \in {"doe", "DOE", "Doe"} -> "Doe"
      [] a \in {"bob", "Bob"} -> "Bob"
      [] OTHER -> a

\* str.title()
TitleCase(s) == [i \in 1..Len(s) |-> TitleWord(s[i])]

\* dateparser.parse(date_str).strftime("%Y-%m-%d"): the formatted date, or
\* Absent when dateutil raises for a string it cannot read
DateParse(s) ==
    CASE Strip(s) = <<"2024-01-15T10:00:00Z">> -> <<"2024-01-15">>
      [] Strip(s) = <<"Jan 5, 2024">> -> <<"2024-01-05">>
      [] OTHER -> Absent

normalize_author_NoSentinel(author) ==
    IF ~Truthy(author) THEN <<>>
    ELSE TitleCase(Strip(CollapseWhitespace(author)))

normalize_author(author) ==
    IF ~Truthy(author) THEN <<"Unknown">>
    ELSE TitleCase(Strip(CollapseWhitespace(author)))

normalize_date(date_str) ==
    IF ~Truthy(date_str) THEN <<"Unknown date">>
    ELSE IF DateParse(date_str) = Absent THEN <<"Unknown date">>
    ELSE DateParse(date_str)

\* an element of the parsed document: its tag, one attribute that selects it
\* (attr = key), its content and datetime attributes and its text
Element(tag, attr, key, content, datetime, text) ==
    [tag |-> tag, attr |-> attr, key |-> key, content |-> content,
     datetime |-> datetime, text |-> text]

Meta(attr, key, content) == Element("meta", attr, key, content, Absent, <<>>)

\* the elements documents are built from
Elements ==
    { Meta("property", "og:title", <<"Social", " ", "Title">>),
      Meta("property", "og:title", <<" ">>),
      Meta("property", "og:title", Absent),
      Element("title", "none", "none", Absent, Absent, <<" ", "Page", " ", "Title", "\n">>),
      Element("title", "none", "none", Absent, Absent, <<" ">>),
      Meta("name", "author", <<"jane", " ", "\n", "DOE">>),
      Meta("name", "author", <<" ", " ">>),
      Meta("property", "byline", <<>>),
      Element("a", "rel", "author", Absent, Absent, <<"bob">>),
      Element("span", "itemprop", "author", Absent, Absent, <<" ", "doe", " ">>),
      Meta("property", "article:published_time", <<"2024-01-15T10:00:00Z">>),
      Meta("name", "date", <<"soon">>),
      Element("time", "none", "none", Absent, Absent, <<"Jan 5, 2024">>),
      Element("p", "none", "none", Absent, Absent,
              <<"Posted on", " ", " ", "Jan 5, 2024", "\n">>),
      Meta("property", "og:url", <<"http://canonical.example/post">>),
      Meta("property", "og:url", <<" ">>) }

\* longest document, in elements
MaxElements == 3

Documents == UNION {[1..n -> Elements] : n \in 0..MaxElements}

\* source_url=None, "" or an address
SourceUrls == {Absent, <<>>, <<"http://example.com/post">>}

\* soup.find(tag, attrs={attr: key}): index of the first such element, 0 if
\* there is none; tag "any" stands for soup.find(attrs=...)
Find(doc, tag, attr, key) ==
    LET hits == {i \in 1..Len(doc) :
                    /\ tag \in {"any", doc[i].tag}
                    /\ doc[i].attr = attr
                    /\ doc[i].key = key}
    IN IF hits = {} THEN 0 ELSE CHOOSE i \in hits : \A j \in hits : i <= j

\* soup.title, soup.find("time")
FindTag(doc, tag) ==
    LET hits == {i \in 1..Len(doc) : doc[i].tag = tag}
    IN IF hits = {} THEN 0 ELSE CHOOSE i \in hits : \A j \in hits : i <= j

\* soup.get_text()
RECURSIVE GetText(_)
GetText(doc) == IF doc = <<>> THEN <<>> ELSE Head(doc).text \o GetText(Tail(doc))

\* title: og:title content, else the stripped title text, else the sentinel
ResolveTitle_ElementFirst(doc) ==
    LET og == Find(doc, "meta", "property", "og:title")
        t == FindTag(doc, "title")
        text == IF t # 0 THEN Strip(doc[t].text) ELSE Absent
        title == IF ~Truthy(text) /\ og # 0 THEN doc[og].content ELSE text
    IN IF Truthy(title) THEN title ELSE <<"Untitled">>

ResolveTitle(doc) ==
    LET og == Find(doc, "meta", "property", "og:title")
        t == FindTag(doc, "title")
        fromOg == IF og # 0 THEN doc[og].content ELSE Absent
        title == IF ~Truthy(fromOg) /\ t # 0 THEN Strip(doc[t].text) ELSE fromOg
    IN IF Truthy(title) THEN title ELSE <<"Untitled">>

author_selectors ==
    << <<"meta", "name", "author">>, <<"meta", "property", "article:author">>,
       <<"meta", "name", "article:author">>, <<"meta", "property", "byline">>,
       <<"meta", "name", "byline">>, <<"a", "rel", "author">> >>

date_selectors ==
    << <<"meta", "property", "article:published_time">>,
       <<"meta", "name", "pubdate">>, <<"meta", "name", "publishdate">>,
       <<"meta", "name", "date">>, <<"meta", "property", "og:updated_time">> >>

\* for tag_name, attrs in selectors: the first selector that finds a tag,
\* as <<selector index, element index>>, <<0, 0>> if none does
RECURSIVE FirstSelected(_, _, _)
FirstSelected(doc, selectors, k) ==
    IF k > Len(selectors) THEN <<0, 0>>
    ELSE IF Find(doc, selectors[k][1], selectors[k][2], selectors[k][3]) # 0
    THEN <<k, Find(doc, selectors[k][1], selectors[k][2], selectors[k][3])>>
    ELSE FirstSelected(doc, selectors, k + 1)

\* author: content or text of the first selected tag, then itemprop=author
ResolveAuthor(doc) ==
    LET sel == FirstSelected(doc, author_selectors, 1)[2]
        first == IF sel # 0 THEN Or(doc[sel].content, doc[sel].text) ELSE Absent
        prop == Find(doc, "any", "itemprop", "author")
        author == IF ~Truthy(first) /\ prop # 0
                  THEN Or(doc[prop].content, doc[prop].text)
                  ELSE first
    IN normalize_author(author)

\* characters of the class [A-Za-z0-9, ]
InDateClass(a) == a \in {" ", "Jan 5, 2024", "soon", "Page", "Title", "bob", "doe"}

RECURSIVE DateClassRun(_)
DateClassRun(s) ==
    IF s # <<>> /\ InDateClass(Head(s)) THEN <<Head(s)>> \o DateClassRun(Tail(s))
    ELSE <<>>

\* re.search(r"(Published on|Posted on)\s+([A-Za-z0-9, ]+)", text): group 2
\* of the first match, None without a match. \s+ is greedy and gives back
\* one space when no character of the class follows the whitespace.
RECURSIVE PublishedOn(_)
PublishedOn(text) ==
    IF text = <<>> THEN Absent
    ELSE IF Head(text) \in {"Published on", "Posted on"}
    THEN LET rest == Tail(text)
             after == LStrip(rest)
             ws == Len(rest) - Len(after)
         IN IF ws >= 1 /\ DateClassRun(after) # <<>> THEN DateClassRun(after)
            ELSE IF ws >= 2 /\ rest[ws] = " " THEN <<" ">>
            ELSE PublishedOn(rest)
    ELSE PublishedOn(Tail(text))

\* date: content of the first selected meta, then the time element, then
\* the text of the page
ResolveDate(doc) ==
    LET sel == FirstSelected(doc, date_selectors, 1)[2]
        first == IF sel # 0 THEN Or(doc[sel].content, Absent) ELSE Absent
        t == FindTag(doc, "time")
        second == IF ~Truthy(first) /\ t # 0
                  THEN Or(doc[t].datetime, doc[t].text)
                  ELSE first
        date == IF ~Truthy(second) THEN PublishedOn(GetText(doc)) ELSE second
    IN normalize_date(date)

\* url: og:url content, else source_url, else the sentinel
ResolveUrl(doc, source_url) ==
    LET og == Find(doc, "meta", "property", "og:url")
    IN IF og # 0 /\ Truthy(doc[og].content) THEN doc[og].content
       ELSE Or(source_url, <<"Unknown source">>)

extract_metadata(doc, source_url) ==
    [title |-> ResolveTitle(doc), author |-> ResolveAuthor(doc),
     date |-> ResolveDate(doc), url |-> ResolveUrl(doc, source_url)]

\* the convert handler is not running while a function is applied on its own
Idle ==
    /\ pc = [r \in Requests |-> "done"]
    /\ body = [r \in Requests |-> NoBody]
    /\ blog_url = [r \in Requests |-> None]
    /\ html = [r \in Requests |-> <<>>]
    /\ metadata = [r \in Requests |-> <<>>]
    /\ enriched_html = [r \in Requests |-> <<>>]
    /\ tmp_pdf_path = [r \in Requests |-> 0]
    /\ tmp_html_path = [r \in Requests |-> 0]
    /\ pending = [r \in Requests |-> NoExc]
    /\ calls = [r \in Requests |-> <<>>]
    /\ produced = [r \in Requests |-> <<>>]
    /\ responses = [r \in Requests |-> <<>>]
    /\ escaped = [r \in Requests |-> FALSE]
    /\ fs = EmptyFs
    /\ css_exists = FALSE

HandlerVars ==
    <<pc, body, blog_url, html, metadata, enriched_html, tmp_pdf_path,
      tmp_html_path, pending, calls, produced, responses, escaped, fs,
      css_exists>>

NoResult == [returned |-> FALSE]

\* extract_metadata is about to be called with a document and a source_url
MetadataInit ==
    /\ Idle
    /\ \E doc \in Documents, u \in SourceUrls :
          pure = [fn |-> "extract_metadata", html |-> doc, source_url |-> u,
                  result |-> NoResult]

CallExtractMetadata ==
    /\ pure.fn = "extract_metadata"
    /\ ~pure.result.returned
    /\ pure' = [pure EXCEPT !.result =
                    [returned |-> TRUE,
                     value |-> extract_metadata(pure.html, pure.source_url)]]
    /\ UNCHANGED HandlerVars

MetadataNext == CallExtractMetadata

MetadataSpec == MetadataInit /\ [][MetadataNext]_vars

Returned == pure.result.returned

MetadataFields == {"title", "author", "date", "url"}

\* C14: extract_metadata returns a record with title, author, date and url
\* and none of the four is empty or whitespace-only.
C14_FieldsNeverBlank ==
    Returned =>
        /\ DOMAIN pure.result.value = MetadataFields
        /\ \A f \in MetadataFields : ~IsBlank(pure.result.value[f])

\* the indexes of the elements of the document that are author locations
AuthorLocations(doc) ==
    {i \in 1..Len(doc) :
        \/ /\ doc[i].tag = "meta"
           /\ doc[i].attr \in {"name", "property"}
           /\ doc[i].key \in {"author", "article:author", "byline"}
        \/ doc[i].tag = "a" /\ doc[i].attr = "rel" /\ doc[i].key = "author"
        \/ doc[i].attr = "itemprop" /\ doc[i].key = "author"}

\* C15: for a document with no author location (no author, article:author
\* or byline meta, no rel=author link, no itemprop=author element) the
\* author returned is exactly 'Unknown'.
C15_NoAuthorIsUnknown ==
    (Returned /\ AuthorLocations(pure.html) = {}) =>
        pure.result.value.author = <<"Unknown">>

C15_Witness ==
    /\ Returned
    /\ Len(pure.html) = MaxElements
    /\ AuthorLocations(pure.html) = {}
    /\ pure.result.value.author = <<"Unknown">>
    /\ pure.result.value.title # <<"Untitled">>

\* og:title metas of the document that carry a value, title elements
OgTitleValues(doc) ==
    {i \in 1..Len(doc) :
        /\ doc[i].tag = "meta" /\ doc[i].attr = "property"
        /\ doc[i].key = "og:title"
        /\ doc[i].content # <<None>> /\ doc[i].content # <<>>}

OgTitles(doc) ==
    {i \in 1..Len(doc) :
        doc[i].tag = "meta" /\ doc[i].attr = "property" /\ doc[i].key = "og:title"}

TitleElements(doc) == {i \in 1..Len(doc) : doc[i].tag = "title"}

\* C16 (as stated): for a document that has an og:title meta value and a
\* title element with a different text, the title returned is the og:title
\* value, whichever of the two comes first.
C16_OgTitleWins ==
    ( /\ Returned
      /\ OgTitleValues(pure.html) # {}
      /\ \E j \in TitleElements(pure.html) : \A i \in OgTitleValues(pure.html) :
            pure.html[j].text # pure.html[i].content )
    => \E i \in OgTitleValues(pure.html) : pure.result.value.title = pure.html[i].content

\* C16 (amended): for a document whose first og:title meta carries a value
\* and which has a title element with a different text, the title returned
\* is the value of that first og:title meta, whichever of the two elements
\* comes first.
C16_FirstOgTitleWins ==
    \A i \in OgTitleValues(pure.html) :
        ( /\ Returned
          /\ \A k \in OgTitles(pure.html) : i <= k
          /\ \E j \in TitleElements(pure.html) :
                pure.html[j].text # pure.html[i].content )
        => pure.result.value.title = pure.html[i].content

\* the title element comes before the og:title meta and the meta wins
C16_Witness ==
    /\ Returned
    /\ \E i \in OgTitleValues(pure.html), j \in TitleElements(pure.html) :
          /\ j < i
          /\ \A k \in OgTitles(pure.html) : i <= k
          /\ ~IsBlank(pure.html[j].text)
          /\ pure.html[j].text # pure.html[i].content
          /\ pure.result.value.title = pure.html[i].content

\* ------------------------------------------------- src/metadata_injector.py
\* A string is a sequence of atoms: single characters, and longer pieces of
\* fixed text (page text, the literals of the templates, character
\* references) that hold none of the tags searched for.
LowerChar(c) ==
    CASE c = "H" -> "h" [] c = "T" -> "t" [] c = "M" -> "m" [] c = "L" -> "l"
      [] c = "E" -> "e" [] c = "A" -> "a" [] c = "D" -> "d" [] c = "B" -> "b"
      [] c = "O" -> "o" [] c = "Y" -> "y" [] OTHER -> c

\* str.lower()
Lower(s) == [i \in 1..Len(s) |-> LowerChar(s[i])]

MatchAt(s, i, pat) ==
    i + Len(pat) - 1 <= Len(s) /\ SubSeq(s, i, i + Len(pat) - 1) = pat

Occurrences(s, pat) == {i \in 1..Len(s) : MatchAt(s, i, pat)}

\* pat in s
Contains(s, pat) == Occurrences(s, pat) # {}

Least(S) == CHOOSE x \in S : \A y \in S : x <= y

\* s.replace(old, new, 1)
ReplaceFirst(s, old, new) ==
    IF ~Contains(s, old) THEN s
    ELSE LET i == Least(Occurrences(s, old))
         IN SubSeq(s, 1, i - 1) \o new \o SubSeq(s, i + Len(old), Len(s))

\* html.escape(s): & < > " and ' become character references
EscapeChar(c) ==
    CASE c = "&" -> "&amp;" [] c = "<" -> "&lt;" [] c = ">" -> "&gt;"
      [] c = "\"" -> "&quot;" [] c = "'" -> "&#x27;" [] OTHER -> c

Escape(s) == [i \in 1..Len(s) |-> EscapeChar(s[i])]

_DEFAULT_CSS ==
    <<"<style> @page { margin: 90px 40px 70px 40px; } .btp-header { position: fixed; top: -70px; } .btp-footer { position: fixed; bottom: -50px; } body { box-sizing: border-box; } </style>">>

HeaderOpen == "<div class=\"btp-header\" aria-hidden=\"true\">"

TitleOpen == "<div class=\"title\">"

FooterOpen == "<div class=\"btp-footer\" aria-hidden=\"true\">"

UrlOpen == "<span class=\"source-url\">"

_render_header_html(meta) ==
    <<HeaderOpen, TitleOpen>> \o Escape(meta.title)
    \o <<"</div>", "<div class=\"meta\"><strong>Author:</strong> ">>
    \o Escape(meta.author)
    \o <<" &nbsp;&nbsp; <strong>Date:</strong> ">> \o Escape(meta.date)
    \o <<"</div>", "</div>">>

_render_footer_html(meta) ==
    <<FooterOpen, UrlOpen>> \o Escape(meta.url)
    \o <<"</span>",
         "<span class=\"page-number\">Page <span class=\"page-counter\">[page]</span></span>",
         "</div>">>

\* outcome of a call that may raise re.error
Returns(v) == [raised |-> FALSE, value |-> v]

Raises == [raised |-> TRUE, value |-> <<>>]

DigitChars == {"0", "1", "2", "3", "4", "5", "6", "7", "8", "9"}

\* ASCII letters that may follow a backslash in values, and those of them
\* that are escapes of a replacement template
LetterChars == {"d", "n", "t"}

TemplateEscapes == {"n", "t"}

ControlChar(c) == IF c = "n" THEN "\n" ELSE "\t"

\* the group reference \1 of the template, not followed by a second digit
IsGroupOne(t) == t[2] = "1" /\ (Len(t) < 3 \/ t[3] \notin DigitChars)

\* parsing a replacement template raises re.error: a backslash at the end,
\* a backslash before a letter that is no escape, a reference to a group
\* other than 1
RECURSIVE TemplateRaises(_)
TemplateRaises(t) ==
    IF t = <<>> THEN FALSE
    ELSE IF Head(t) # "\\" THEN TemplateRaises(Tail(t))
    ELSE IF Len(t) = 1 THEN TRUE
    ELSE IF t[2] \in DigitChars
    THEN IF IsGroupOne(t) \/ (t[2] = "0" /\ (Len(t) < 3 \/ t[3] \notin DigitChars))
         THEN TemplateRaises(SubSeq(t, 3, Len(t)))
         ELSE TRUE
    ELSE IF t[2] \in LetterChars
    THEN IF t[2] \in TemplateEscapes THEN TemplateRaises(SubSeq(t, 3, Len(t)))
         ELSE TRUE
    ELSE IF t[2] = "\\" THEN TemplateRaises(SubSeq(t, 3, Len(t)))
    ELSE TemplateRaises(Tail(t))

\* the replacement text: \1 is the matched tag, \\ one backslash, \n and \t
\* control characters, \0 the NUL character; a backslash before any other
\* character stays
RECURSIVE Expand(_, _)
Expand(t, group1) ==
    IF t = <<>> THEN <<>>
    ELSE IF Head(t) # "\\" \/ Len(t) = 1
    THEN <<Head(t)>> \o Expand(Tail(t), group1)
    ELSE IF t[2] = "1" THEN group1 \o Expand(SubSeq(t, 3, Len(t)), group1)
    ELSE IF t[2] = "0" THEN <<"NUL">> \o Expand(SubSeq(t, 3, Len(t)), group1)
    ELSE IF t[2] = "\\" THEN <<"\\">> \o Expand(SubSeq(t, 3, Len(t)), group1)
    ELSE IF t[2] \in TemplateEscapes
    THEN <<ControlChar(t[2])>> \o Expand(SubSeq(t, 3, Len(t)), group1)
    ELSE <<"\\">> \o Expand(Tail(t), group1)

\* starts of the matches of r'(<head[^>]*>)' or r'(<body[^>]*>)' with
\* re.IGNORECASE: the tag name, then anything up to the next ">"
TagMatches(s, name) ==
    {i \in Occurrences(Lower(s), name) :
        \E j \in (i + Len(name))..Len(s) : s[j] = ">"}

TagEnd(s, i, name) == Least({j \in (i + Len(name))..Len(s) : s[j] = ">"})

\* re.sub(r'(<name[^>]*>)', repl, s, count=1, flags=re.IGNORECASE)
ReSubFirstTag(name, repl, s) ==
    IF TemplateRaises(repl) THEN Raises
    ELSE IF TagMatches(s, name) = {} THEN Returns(s)
    ELSE LET i == Least(TagMatches(s, name))
             j == TagEnd(s, i, name)
         IN Returns(SubSeq(s, 1, i - 1) \o Expand(repl, SubSeq(s, i, j))
                    \o SubSeq(s, j + 1, Len(s)))

LtHtml == <<"<", "h", "t", "m", "l">>

LtHead == <<"<", "h", "e", "a", "d">>

LtBody == <<"<", "b", "o", "d", "y">>

HtmlTag == <<"<", "h", "t", "m", "l", ">">>

HeadTag == <<"<", "h", "e", "a", "d", ">">>

HeadEnd == <<"<", "/", "h", "e", "a", "d", ">">>

BodyTag == <<"<", "b", "o", "d", "y", ">">>

BodyEnd == <<"<", "/", "b", "o", "d", "y", ">">>

HtmlEnd == <<"<", "/", "h", "t", "m", "l", ">">>

\* r'\1'
GroupOne == <<"\\", "1">>

\* f"<html><head></head><body>{html}</body></html>"
Skeleton(markup) ==
    HtmlTag \o HeadTag \o HeadEnd \o BodyTag \o markup \o BodyEnd \o HtmlEnd

\* if has_head: re.sub(...) else: new_html.replace('<html>', ...)
InjectCss(new_html, has_head, css) ==
    IF has_head THEN ReSubFirstTag(LtHead, GroupOne \o css, new_html)
    ELSE Returns(ReplaceFirst(new_html, HtmlTag,
                              HtmlTag \o HeadTag \o css \o HeadEnd))

\* if has_body: re.sub(...) else: replace('</head>', ...) and += "</body>"
InjectHeaderFooter(new_html, has_body, header, footer) ==
    IF has_body
    THEN ReSubFirstTag(LtBody, GroupOne \o header \o footer, new_html)
    ELSE Returns(ReplaceFirst(new_html, HeadEnd,
                              HeadEnd \o BodyTag \o header \o footer)
                 \o BodyEnd)

inject_metadata_into_html(markup, meta, css) ==
    LET used == IF css = Absent THEN _DEFAULT_CSS ELSE css
        html_lower == Lower(markup)
        rooted == Contains(html_lower, LtHtml)
        has_head == ~rooted \/ Contains(html_lower, LtHead)
        has_body == ~rooted \/ Contains(html_lower, LtBody)
        new_html == IF rooted THEN markup ELSE Skeleton(markup)
        styled == InjectCss(new_html, has_head, used)
    IN IF styled.raised THEN Raises
       ELSE InjectHeaderFooter(styled.value, has_body,
                               _render_header_html(meta),
                               _render_footer_html(meta))

\* ---- the markup given to the injector
Attr == <<" ", "l", "a", "n", "g">>

\* <tag> with attributes
WithAttr(tag) == SubSeq(tag, 1, Len(tag) - 1) \o Attr \o <<">">>

Upper(tag) ==
    [i \in 1..Len(tag) |->
        CASE tag[i] = "h" -> "H" [] tag[i] = "t" -> "T" [] tag[i] = "m" -> "M"
          [] tag[i] = "l" -> "L" [] OTHER -> tag[i]]

\* the root element: none, <html>, <html lang>, <HTML>
RootTags == {<<>>, HtmlTag, WithAttr(HtmlTag), Upper(HtmlTag)}

\* the head: none or <head></head>
HeadParts == {<<>>, HeadTag \o HeadEnd}

\* the body tag: none, <body>, <body lang>
BodyTags == {<<>>, BodyTag, WithAttr(BodyTag)}

\* the content: text, or a header element with text
Contents ==
    {<<"hello">>,
     <<"<", "h", "e", "a", "d", "e", "r", ">">> \o <<"hello">> \o <<"<", "/", "h", "e", "a", "d", "e", "r", ">">>}

Markup(root, head, btag, content) ==
    root \o head \o btag \o content
    \o (IF btag = <<>> THEN <<>> ELSE BodyEnd)
    \o (IF root = <<>> THEN <<>> ELSE HtmlEnd)

Markups ==
    {Markup(root, head, btag, content) :
        root \in RootTags, head \in HeadParts, btag \in BodyTags,
        content \in Contents}

\* characters of metadata values: a letter, markup metacharacters, a quote,
\* the backslash and a digit
ValueAlphabet == {"d", "<", "&", "\"", "\\", "1"}

\* longest title, in characters
MaxValueLen == 2

TitleValues == UNION {[1..n -> ValueAlphabet] : n \in 1..MaxValueLen}

UrlValues == {<<"http://example.com/post">>, <<"\\", "1">>}

MetadataValues ==
    {[title |-> t, author |-> <<"Jane", " ", "Doe">>, date |-> <<"2024-01-15">>,
      url |-> u] : t \in TitleValues, u \in UrlValues}

\* css=None, css="" and css="<style>...</style>", the last two being what
\* convert passes as custom_css
CssArguments == {Absent, <<>>, <<"<style>pdf-style.css</style>">>}

\* times the injector is applied to its own output
MaxInjections == 2

InjectInit ==
    /\ Idle
    /\ \E h \in Markups, m \in MetadataValues, c \in CssArguments :
          pure = [fn |-> "inject_metadata_into_html", input |-> h, html |-> h,
                  metadata |-> m, css |-> c, applied |-> 0, raised |-> FALSE]

\* new_html = inject_metadata_into_html(html, metadata, css), applied to
\* the input and then to its own output
CallInject ==
    /\ pure.fn = "inject_metadata_into_html"
    /\ pure.applied < MaxInjections
    /\ ~pure.raised
    /\ LET r == inject_metadata_into_html(pure.html, pure.metadata, pure.css)
       IN pure' = [pure EXCEPT !.html = IF r.raised THEN @ ELSE r.value,
                               !.raised = r.raised,
                               !.applied = @ + 1]
    /\ UNCHANGED HandlerVars

InjectNext == CallInject

InjectSpec == InjectInit /\ [][InjectNext]_vars

\* ---- reading the output
Injected(n) == pure.applied = n /\ ~pure.raised

HeaderBlocks(s) == Occurrences(s, <<HeaderOpen>>)

FooterBlocks(s) == Occurrences(s, <<FooterOpen>>)

\* opening tags <name> or <name ...>, whatever the case of the letters
OpeningTags(s, name) ==
    {i \in Occurrences(Lower(s), name) :
        i + Len(name) <= Len(s) /\ s[i + Len(name)] \in {">", " "}}

ClosingTags(s, end) == Occurrences(Lower(s), end)

\* a single html root that holds a closed head and then a closed body
WellFormed(s) ==
    /\ OpeningTags(s, LtHtml) = {1}
    /\ ClosingTags(s, HtmlEnd) = {Len(s) - Len(HtmlEnd) + 1}
    /\ \E ho \in OpeningTags(s, LtHead), hc \in ClosingTags(s, HeadEnd),
          bo \in OpeningTags(s, LtBody), bc \in ClosingTags(s, BodyEnd) :
          /\ OpeningTags(s, LtHead) = {ho} /\ ClosingTags(s, HeadEnd) = {hc}
          /\ OpeningTags(s, LtBody) = {bo} /\ ClosingTags(s, BodyEnd) = {bc}
          /\ 1 < ho /\ ho < hc /\ hc < bo /\ bo < bc
          /\ bc < Len(s) - Len(HtmlEnd) + 1

\* the input has no root html element, no head or no body
LacksSkeleton(s) ==
    \/ OpeningTags(s, LtHtml) = {}
    \/ OpeningTags(s, LtHead) = {}
    \/ OpeningTags(s, LtBody) = {}

\* C17: for an input that lacks the root html element, the head or the
\* body, the injector returns a well-formed document (one html root, head
\* and body inside it and closed) with exactly one header block and
\* exactly one footer block.
C17_SkeletonRepaired ==
    (Injected(1) /\ LacksSkeleton(pure.input)) =>
        /\ WellFormed(pure.html)
        /\ Cardinality(HeaderBlocks(pure.html)) = 1
        /\ Cardinality(FooterBlocks(pure.html)) = 1

\* C18: the injector applied to its own output with the same metadata
\* gives a document with at most one header block and at most one footer
\* block.
C18_InjectionIdempotent ==
    (pure.fn = "inject_metadata_into_html" /\ pure.applied >= 2 /\ ~pure.raised) =>
        /\ Cardinality(HeaderBlocks(pure.html)) <= 1
        /\ Cardinality(FooterBlocks(pure.html)) <= 1

\* the atoms of s between the first occurrence of the atom open and the
\* closing atom that follows it
Between(s, open, close) ==
    LET i == Least(Occurrences(s, <<open>>))
        j == Least({k \in (i + 1)..Len(s) : s[k] = close})
    IN SubSeq(s, i + 1, j - 1)

MarkupChars == {"<", ">", "\"", "'"}

\* no markup character stands where a value was inserted
Inert(s) == \A k \in 1..Len(s) : s[k] \notin MarkupChars

\* C19: whatever characters the metadata values hold, the injector does
\* not fail and the text of the title and of the url in the output holds
\* no markup character: no tag, no attribute and no copy of a part of the
\* document comes from a value.
C19_ValuesInert ==
    (pure.fn = "inject_metadata_into_html" /\ pure.applied = 1) =>
        /\ ~pure.raised
        /\ HeaderBlocks(pure.html) # {} =>
              Inert(Between(pure.html, TitleOpen, "</div>"))
        /\ FooterBlocks(pure.html) # {} =>
              Inert(Between(pure.html, UrlOpen, "</span>"))

\* the atom that follows the first opening head tag of s
AfterHeadTag(s) ==
    LET i == Least(OpeningTags(s, LtHead))
        j == TagEnd(s, i, LtHead)
    IN IF j < Len(s) THEN <<s[j + 1]>> ELSE <<>>

\* C20: the output holds the fixed style block right after the opening
\* head tag, and a style given by the caller, the empty one included, is
\* added to it and does not replace it.
C20_FixedStyleAlwaysPresent ==
    Injected(1) =>
        /\ OpeningTags(pure.html, LtHead) # {}
        /\ AfterHeadTag(pure.html) = _DEFAULT_CSS
        /\ (pure.css # Absent /\ pure.css # <<>>) => Contains(pure.html, pure.css)

\* ------------------------------------------- temporary files after a failure

\* C29: when a request ends in an error after the render stage made its first
\* attempt, no temporary file the request created is left in the temporary
\* directory, neither the intermediate markup file nor the PDF output file.
C29_NoTempFileAfterRenderFailure ==
    \A r \in Requests :
        RenderFailureReported(r) =>
            FilesOf(r, ".pdf") = {} /\ FilesOf(r, ".html") = {}

\* ------------------------------------------- precedence of metadata locations

\* the value the k-th location of the author list holds in a document: the
\* six selectors of author_selectors, then itemprop=author
AuthorValueAt(doc, k) ==
    LET i == IF k <= Len(author_selectors)
             THEN Find(doc, author_selectors[k][1], author_selectors[k][2],
                       author_selectors[k][3])
             ELSE Find(doc, "any", "itemprop", "author")
    IN IF i = 0 THEN Absent ELSE Or(doc[i].content, doc[i].text)

\* the value the k-th location of the date list holds: the five metas of
\* date_selectors, then the time element, then the scan of the page text
DateValueAt(doc, k) ==
    IF k <= Len(date_selectors)
    THEN LET i == Find(doc, date_selectors[k][1], date_selectors[k][2],
                       date_selectors[k][3])
         IN IF i = 0 THEN Absent ELSE doc[i].content
    ELSE IF k = Len(date_selectors) + 1
    THEN LET t == FindTag(doc, "time")
         IN IF t = 0 THEN Absent ELSE Or(doc[t].datetime, doc[t].text)
    ELSE PublishedOn(GetText(doc))

AuthorListLength == Len(author_selectors) + 1

DateListLength == Len(date_selectors) + 2

\* C27: author and date are taken from the earliest location of their list
\* that holds a non-empty value; an earlier location whose element is present
\* with an empty value does not keep a later location from being used.
C27_EarliestNonEmptyLocationWins ==
    Returned =>
        LET doc == pure.html
        IN /\ \A k \in 1..AuthorListLength :
                  (/\ Truthy(AuthorValueAt(doc, k))
                   /\ \A j \in 1..(k - 1) : ~Truthy(AuthorValueAt(doc, j)))
                  => pure.result.value.author = normalize_author(AuthorValueAt(doc, k))
           /\ \A k \in 1..DateListLength :
                  (/\ Truthy(DateValueAt(doc, k))
                   /\ \A j \in 1..(k - 1) : ~Truthy(DateValueAt(doc, j)))
                  => pure.result.value.date = normalize_date(DateValueAt(doc, k))

\* ------------------------------------ the markup file of the fallback render
\* (src/updated_backend/final_app.py, lines 126-134)

BaseOpen == "<base href=\""

\* f'<base href="{blog_url}">'
base_tag(url) == <<BaseOpen>> \o url \o <<"\">">>

\* if re.search(r'<head[^>]*>', content, flags=re.IGNORECASE): re.sub(...)
\* else: content.replace('<html>', f'<html><head>{base_tag}</head>', 1)
WithBaseTag(content, url) ==
    IF TagMatches(content, LtHead) # {}
    THEN ReSubFirstTag(LtHead, GroupOne \o base_tag(url), content)
    ELSE Returns(ReplaceFirst(content, HtmlTag,
                              HtmlTag \o HeadTag \o base_tag(url) \o HeadEnd))

\* the addresses of the requests: a plain one, one with a backslash before a
\* letter and one with a backslash before a digit
FallbackAddresses ==
    {<<"http://e.com/post">>, <<"http://e.com/a", "\\", "d">>,
     <<"http://e.com/a", "\\", "1">>}

\* metadata of a page fetched from an address
PageMetadata(url) ==
    [title |-> <<"Page", " ", "Title">>, author |-> <<"Jane", " ", "Doe">>,
     date |-> <<"2024-01-15">>, url |-> url]

\* custom_css: "" without the style file, else its text in a style element
CustomCssArguments == CssArguments \ {Absent}

\* the calls of the injector the handler makes that return
Enriching ==
    {x \in Markups \X FallbackAddresses \X CustomCssArguments :
        ~inject_metadata_into_html(x[1], PageMetadata(x[2]), x[3]).raised}

\* the enriched markup the handler holds when the primary render has failed
Enrichments ==
    {[enriched |-> inject_metadata_into_html(x[1], PageMetadata(x[2]), x[3]).value,
      blog_url |-> x[2]] : x \in Enriching}

FallbackInit ==
    /\ Idle
    /\ \E e \in Enrichments :
          pure = [fn |-> "fallback_content", enriched |-> e.enriched,
                  blog_url |-> e.blog_url, written |-> FALSE, raised |-> FALSE,
                  content |-> <<>>]

\* content = enriched_html; ...; tmp_html.write(content)
WriteFallbackContent ==
    /\ pure.fn = "fallback_content"
    /\ ~pure.written /\ ~pure.raised
    /\ LET res == WithBaseTag(pure.enriched, pure.blog_url)
       IN pure' = [pure EXCEPT !.written = ~res.raised, !.raised = res.raised,
                               !.content = res.value]
    /\ UNCHANGED HandlerVars

FallbackNext == WriteFallbackContent

FallbackSpec == FallbackInit /\ [][FallbackNext]_vars

\* starts of the opening tags of a head element: <head> or <head ...>
HeadOpenings(s) ==
    {i \in TagMatches(s, LtHead) : s[i + Len(LtHead)] \in {">", " "}}

\* position i lies inside a head element of s
InsideHead(s, i) ==
    /\ \E h \in HeadOpenings(s) : TagEnd(s, h, LtHead) < i
    /\ \E e \in Occurrences(Lower(s), HeadEnd) : i < e

\* C28: the file written for the fallback render holds the enriched markup
\* with exactly one base tag, whose href is the address of the request,
\* placed inside the head element, and the rest of the markup unchanged.
C28_OneBaseTagInHead ==
    (pure.fn = "fallback_content" /\ pure.written) =>
        LET c == pure.content
            b == base_tag(pure.blog_url)
        IN /\ Cardinality(Occurrences(c, <<BaseOpen>>)) = 1
           /\ \E i \in Occurrences(c, b) :
                 /\ InsideHead(c, i)
                 /\ SubSeq(c, 1, i - 1) \o SubSeq(c, i + Len(b), Len(c))
                        = pure.enriched

\* ------------------------------------------------------- the clutter remover
\* (src/remove_ads.py)
\*
\* Markup is given as the tree html.parser builds from it: the tags in
\* document order, each with the index of its parent tag (0 at the top). An
\* attribute value is a sequence of atoms, a word (a maximal run of word
\* characters) or a single other character; <<>> is a missing or empty value.

\* a tag without attributes holding len characters of text of its own
Plain(name, len) ==
    [tag |-> name, id |-> <<>>, class |-> <<>>, role |-> <<>>, label |-> <<>>,
     src |-> <<>>, datasrc |-> <<>>, width |-> "", height |-> "",
     adattrs |-> {}, len |-> len, words |-> <<>>]

\* words \bad\b, \bads\b, ... match whole, and words \badvert and \bsponsor
\* match at their start
_AD_KEYWORDS ==
    {"ad", "ads", "sponsored", "promo", "promoted", "doubleclick",
     "googlesyndication", "adsystem", "adservice", "taboola", "outbrain",
     "revcontent", "advertisement", "marketplace"}
    \cup {"advert", "advertising", "advertorial"}
    \cup {"sponsor", "sponsors", "sponsorship"}

\* re.IGNORECASE on a word
LowerWord(w) ==
    CASE w = "AD" -> "ad" [] w = "Sponsored" -> "sponsored" [] OTHER -> w

\* _AD_KEYWORD_RE.search(value) finds a match
_AD_KEYWORD_RE(value) ==
    \E i \in 1..Len(value) : LowerWord(value[i]) \in _AD_KEYWORDS

_AD_SRC_PATTERNS ==
    {<<"doubleclick", ".", "net">>, <<"googlesyndication">>,
     <<"googletagservices">>, <<"adservice", ".", "google">>, <<"adroll">>,
     <<"adsystem">>, <<"taboola">>, <<"outbrain">>, <<"revcontent">>,
     <<"yieldmo">>, <<"indexexchange">>, <<"adsafeprotected">>}

\* any(pat in src for pat in _AD_SRC_PATTERNS)
HasAdSrc(src) == \E pat \in _AD_SRC_PATTERNS : Contains(src, pat)

_looks_like_ad_attr(value) ==
    IF value = <<>> THEN FALSE ELSE _AD_KEYWORD_RE(value)

\* int(v) of an attribute value: the integer, or ValueError
int(v) ==
    CASE v = "0" -> [raised |-> FALSE, value |-> 0]
      [] v = "1" -> [raised |-> FALSE, value |-> 1]
      [] v = "49" -> [raised |-> FALSE, value |-> 49]
      [] v = "50" -> [raised |-> FALSE, value |-> 50]
      [] v = "600" -> [raised |-> FALSE, value |-> 600]
      [] v = "-5" -> [raised |-> FALSE, value |-> 0 - 5]
      [] OTHER -> [raised |-> TRUE, value |-> 0]

\* ---- the tree
RECURSIVE Ancestors(_, _)
Ancestors(doc, i) ==
    IF doc.parent[i] = 0 THEN {}
    ELSE {doc.parent[i]} \cup Ancestors(doc, doc.parent[i])

Tags(doc) == 1..Len(doc.nodes)

\* a tag and its descendants
Subtree(doc, i) == {j \in Tags(doc) : j = i \/ i \in Ancestors(doc, j)}

\* tag.decompose(): the tag and its descendants leave the tree and lose
\* their attributes
Decompose(doc, gone, i) == gone \cup Subtree(doc, i)

RECURSIVE SumLen(_, _)
SumLen(doc, S) ==
    IF S = {} THEN 0
    ELSE LET j == CHOOSE x \in S : TRUE
         IN doc.nodes[j].len + SumLen(doc, S \ {j})

\* len((tag.get_text() or "").strip())
TextLen(doc, gone, i) == SumLen(doc, Subtree(doc, i) \ gone)

\* outcome of the steps so far: the set of decomposed tags, or an exception
Swept(gone) == [raised |-> FALSE, exc |-> "none", gone |-> gone]

Failure(exc, gone) == [raised |-> TRUE, exc |-> exc, gone |-> gone]

\* ---- step 1: iframes (lines 54-71)
\* (w and int(w) < 50) or (h and int(h) < 50), inside try/except
SmallDimension(n) ==
    IF n.width # "" /\ int(n.width).raised THEN FALSE
    ELSE IF n.width # "" /\ int(n.width).value < 50 THEN TRUE
    ELSE IF n.height # "" /\ int(n.height).raised THEN FALSE
    ELSE n.height # "" /\ int(n.height).value < 50

\* what the body of the loop does with one iframe: iframe.get("class", "")
\* is a list when the attribute is there, and the pattern's search raises
\* TypeError on a list
IframeVerdict(n) ==
    LET src == IF n.src # <<>> THEN n.src ELSE n.datasrc
    IN IF src # <<>> /\ HasAdSrc(src) THEN "remove"
       ELSE IF SmallDimension(n) THEN "remove"
       ELSE IF _looks_like_ad_attr(n.id) THEN "remove"
       ELSE IF n.class # <<>> THEN "TypeError"
       ELSE "keep"

\* for iframe in soup.find_all("iframe"): a tag of the list that an earlier
\* iteration decomposed has no attributes any more, so tag.get raises
RECURSIVE IframeLoop(_, _, _, _)
IframeLoop(doc, listed, gone, k) ==
    IF k > Len(doc.nodes) THEN Swept(gone)
    ELSE IF k \notin listed THEN IframeLoop(doc, listed, gone, k + 1)
    ELSE IF k \in gone THEN Failure("AttributeError", gone)
    ELSE LET v == IframeVerdict(doc.nodes[k])
         IN IF v = "TypeError" THEN Failure("TypeError", gone)
            ELSE IframeLoop(doc, listed,
                            IF v = "remove" THEN Decompose(doc, gone, k) ELSE gone,
                            k + 1)

\* ---- step 2: scripts (lines 74-85)
ScriptTokens == {"doubleclick", "adsbygoogle", "googlesyndication", "taboola", "outbrain"}

\* script.string: the text of a script without child tags
ScriptString(doc, gone, k) ==
    IF Subtree(doc, k) \ gone = {k} THEN doc.nodes[k].words ELSE <<>>

ScriptVerdict(doc, gone, k) ==
    LET n == doc.nodes[k]
        content == ScriptString(doc, gone, k)
    IN IF n.src # <<>> /\ HasAdSrc(n.src) THEN "remove"
       ELSE IF /\ content # <<>>
               /\ _AD_KEYWORD_RE(content)
               /\ \E i \in 1..Len(content) : LowerWord(content[i]) \in ScriptTokens
       THEN "remove"
       ELSE "keep"

RECURSIVE ScriptLoop(_, _, _, _)
ScriptLoop(doc, listed, gone, k) ==
    IF k > Len(doc.nodes) THEN Swept(gone)
    ELSE IF k \notin listed THEN ScriptLoop(doc, listed, gone, k + 1)
    ELSE IF k \in gone THEN Failure("AttributeError", gone)
    ELSE ScriptLoop(doc, listed,
                    IF ScriptVerdict(doc, gone, k) = "remove"
                    THEN Decompose(doc, gone, k) ELSE gone,
                    k + 1)

\* ---- step 3: ad attributes (lines 88-91)
ad_attr_names ==
    <<"data-ad", "data-ad-slot", "data-ad-client", "data-google-query-id",
      "data-adunit">>

\* for tag in soup.find_all(attrs={attr: True}): tag.decompose(); decomposing
\* a tag again changes nothing
RECURSIVE DecomposeAll(_, _, _)
DecomposeAll(doc, gone, S) ==
    IF S = {} THEN gone
    ELSE LET j == CHOOSE x \in S : \A y \in S : x <= y
         IN DecomposeAll(doc, Decompose(doc, gone, j), S \ {j})

RECURSIVE AdAttrLoop(_, _, _)
AdAttrLoop(doc, gone, a) ==
    IF a > Len(ad_attr_names) THEN gone
    ELSE AdAttrLoop(doc,
                    DecomposeAll(doc, gone,
                                 {j \in Tags(doc) \ gone :
                                     ad_attr_names[a] \in doc.nodes[j].adattrs}),
                    a + 1)

\* ---- the keyword sweep (lines 95-109)
RECURSIVE JoinTokens(_)
JoinTokens(class) ==
    IF class = <<>> THEN <<>>
    ELSE IF Len(class) = 1 THEN class[1]
    ELSE class[1] \o <<" ">> \o JoinTokens(Tail(class))

\* " ".join([idv, classv, role, aria_label])
TestFields(n) ==
    n.id \o <<" ">> \o JoinTokens(n.class) \o <<" ">> \o n.role \o <<" ">> \o n.label

WidgetTags == {"aside", "iframe", "ins", "figure", "div", "section"}

\* the size below which a keyword-matched tag of any name is removed
SmallText == 200

\* the sweep without its guard: every keyword-matched tag is removed
SweepVerdict_KeywordOnly(doc, gone, k) ==
    IF _looks_like_ad_attr(TestFields(doc.nodes[k])) THEN "remove" ELSE "keep"

SweepVerdict(doc, gone, k) ==
    IF /\ _looks_like_ad_attr(TestFields(doc.nodes[k]))
       /\ \/ TextLen(doc, gone, k) < SmallText
          \/ doc.nodes[k].tag \in WidgetTags
    THEN "remove"
    ELSE "keep"

\* for tag in soup.find_all(True): the list is made before the loop; a tag
\* of it that an earlier iteration decomposed has no attributes any more, so
\* tag.get("id", "") raises AttributeError
RECURSIVE SweepLoop(_, _, _, _)
SweepLoop(doc, listed, gone, k) ==
    IF k > Len(doc.nodes) THEN Swept(gone)
    ELSE IF k \notin listed THEN SweepLoop(doc, listed, gone, k + 1)
    ELSE IF k \in gone THEN Failure("AttributeError", gone)
    ELSE SweepLoop(doc, listed,
                   IF SweepVerdict(doc, gone, k) = "remove"
                   THEN Decompose(doc, gone, k) ELSE gone,
                   k + 1)

\* ---- step 4: fixed selectors (lines 112-114), as <<tag, class token>>
Selectors ==
    << <<"ins", <<"adsbygoogle">> >>, <<"any", <<"ad">> >>,
       <<"any", <<"ads">> >>, <<"any", <<"advert">> >>,
       <<"any", <<"advertisement">> >>, <<"any", <<"sponsored">> >>,
       <<"any", <<"promoted">> >>, <<"any", <<"ad", "-", "slot">> >>,
       <<"any", <<"ad", "-", "container">> >>, <<"any", <<"adunit">> >>,
       <<"any", <<"ad", "-", "wrapper">> >>, <<"any", <<"ad_banner">> >>,
       <<"any", <<"adbox">> >>, <<"any", <<"ad", "-", "placeholder">> >> >>

\* soup.select(selector) matches the tag
Selects(sel, n) ==
    /\ sel[1] \in {"any", n.tag}
    /\ \E t \in 1..Len(n.class) : n.class[t] = sel[2]

RECURSIVE SelectorLoop(_, _, _)
SelectorLoop(doc, gone, q) ==
    IF q > Len(Selectors) THEN gone
    ELSE SelectorLoop(doc,
                      DecomposeAll(doc, gone,
                                   {j \in Tags(doc) \ gone :
                                       Selects(Selectors[q], doc.nodes[j])}),
                      q + 1)

\* ---- step 5: noscript (lines 117-119)
\* the words of str(tag): attribute names and values and text of the tag
RECURSIVE AdAttrWords(_)
AdAttrWords(S) ==
    IF S = {} THEN <<>>
    ELSE LET a == CHOOSE x \in S : TRUE
         IN <<"data", "-", "ad">> \o AdAttrWords(S \ {a})

OwnWords(n) ==
    n.id \o <<" ">> \o JoinTokens(n.class) \o <<" ">> \o n.role \o <<" ">>
    \o n.label \o <<" ">> \o n.src \o <<" ">> \o n.datasrc \o <<" ">>
    \o AdAttrWords(n.adattrs) \o <<" ">> \o n.words

NoscriptVerdict(doc, gone, k) ==
    IF \E j \in Subtree(doc, k) \ gone : _AD_KEYWORD_RE(OwnWords(doc.nodes[j]))
    THEN "remove"
    ELSE "keep"

RECURSIVE NoscriptLoop(_, _, _, _)
NoscriptLoop(doc, listed, gone, k) ==
    IF k > Len(doc.nodes) THEN Swept(gone)
    ELSE IF k \notin listed THEN NoscriptLoop(doc, listed, gone, k + 1)
    ELSE IF k \in gone THEN Failure("AttributeError", gone)
    ELSE NoscriptLoop(doc, listed,
                      IF NoscriptVerdict(doc, gone, k) = "remove"
                      THEN Decompose(doc, gone, k) ELSE gone,
                      k + 1)

\* soup.find_all(name) at the start of a loop: the tags still in the tree
FindAll(doc, gone, name) ==
    {j \in Tags(doc) \ gone : name \in {"any", doc.nodes[j].tag}}

\* the steps in the order of the code
StepNames == <<"iframes", "scripts", "ad attributes", "sweep", "selectors", "noscripts">>

\* one step on the tree the steps before it left; an exception of an
\* earlier step has ended the call
StepFrom(doc, st, s) ==
    IF st.raised THEN st
    ELSE CASE s = 1 -> IframeLoop(doc, FindAll(doc, st.gone, "iframe"), st.gone, 1)
           [] s = 2 -> ScriptLoop(doc, FindAll(doc, st.gone, "script"), st.gone, 1)
           [] s = 3 -> Swept(AdAttrLoop(doc, st.gone, 1))
           [] s = 4 -> SweepLoop(doc, FindAll(doc, st.gone, "any"), st.gone, 1)
           [] s = 5 -> Swept(SelectorLoop(doc, st.gone, 1))
           [] s = 6 -> NoscriptLoop(doc, FindAll(doc, st.gone, "noscript"), st.gone, 1)

\* the decomposed tags after each step
RECURSIVE StagesFrom(_, _, _)
StagesFrom(doc, st, s) ==
    IF s > Len(StepNames) THEN <<>>
    ELSE LET next == StepFrom(doc, st, s)
         IN <<next>> \o StagesFrom(doc, next, s + 1)

Stages(doc) == StagesFrom(doc, Swept({}), 1)

\* str(soup): the tags left in the tree, in document order
RECURSIVE Ascending(_)
Ascending(S) ==
    IF S = {} THEN <<>>
    ELSE LET j == CHOOSE x \in S : \A y \in S : x <= y
         IN <<j>> \o Ascending(S \ {j})

Serialize(doc, gone) ==
    LET left == Ascending(Tags(doc) \ gone)
        NewIndex(i) == Cardinality({j \in Tags(doc) \ gone : j <= i})
    IN [nodes |-> [i \in 1..Len(left) |-> doc.nodes[left[i]]],
        parent |-> [i \in 1..Len(left) |->
                       IF doc.parent[left[i]] = 0 THEN 0
                       ELSE NewIndex(doc.parent[left[i]])]]

\* what the call gives back after its last step: the exception, or the
\* markup of the tags that are left (stages keeps the outcome of every step)
Outcome(doc, stages) ==
    LET st == stages[Len(stages)]
    IN [raised |-> st.raised, exc |-> st.exc, gone |-> st.gone,
        value |-> IF st.raised THEN doc ELSE Serialize(doc, st.gone),
        stages |-> stages]

remove_ads_from_html(doc, source_url) ==
    LET stages == Stages(doc) IN Outcome(doc, stages)

\* ---- the markup given to the clutter remover
VideoSrc == <<"https", ":", "/", "/", "video", ".", "example", "/", "embed">>

AdNetworkSrc == <<"https", ":", "/", "/", "ad", ".", "doubleclick", ".", "net", "/", "x">>

\* the tags markup is built from
AdNodes ==
    { [Plain("div", 60) EXCEPT !.class = << <<"ad">> >>],
      [Plain("div", 250) EXCEPT !.class = << <<"content">> >>],
      [Plain("div", 250) EXCEPT !.class = << <<"ad", "-", "free">> >>],
      [Plain("article", 250) EXCEPT !.class = << <<"ad", "-", "free">> >>],
      [Plain("p", 150) EXCEPT !.class = << <<"promo">> >>],
      [Plain("iframe", 0) EXCEPT !.src = VideoSrc, !.width = "100%", !.height = "1"],
      [Plain("iframe", 0) EXCEPT !.src = VideoSrc, !.width = "0"],
      [Plain("iframe", 0) EXCEPT !.src = VideoSrc, !.class = << <<"player">> >>],
      [Plain("ins", 0) EXCEPT !.class = << <<"adsbygoogle">> >>,
                              !.adattrs = {"data-ad-slot"}],
      [Plain("script", 0) EXCEPT !.src = AdNetworkSrc],
      [Plain("noscript", 10) EXCEPT !.words = <<"doubleclick", " ", "pixel">>] }

\* the tags that hold other tags in the markup given
ContainerTags == {"div", "article", "p"}

\* largest markup, in tags
MaxNodes == 3

\* the parents of n tags in document order: the parent of a tag is the tag
\* before it or one of that tag's ancestors, or none
RECURSIVE UpFrom(_, _)
UpFrom(par, i) == IF i = 0 THEN {0} ELSE {i} \cup UpFrom(par, par[i])

Shapes(n) ==
    {par \in [1..n -> 0..n] :
        \A i \in 1..n : par[i] < i /\ par[i] \in UpFrom(par, i - 1)}

\* a tree: the tags and their parents, every parent a container
IsTree(ns, par) ==
    \A i \in 1..Len(ns) : par[i] # 0 => ns[par[i]].tag \in ContainerTags

\* times the clutter remover is applied to its own output
MaxPasses == 2

RemoveAdsInit ==
    /\ Idle
    /\ \E n \in 0..MaxNodes : \E par \in Shapes(n) : \E ns \in [1..n -> AdNodes] :
          /\ IsTree(ns, par)
          /\ pure = [fn |-> "remove_ads_from_html",
                     input |-> [nodes |-> ns, parent |-> par],
                     html |-> [nodes |-> ns, parent |-> par],
                     applied |-> 0, raised |-> FALSE, exc |-> "none",
                     gone |-> {}, stages |-> <<>>]

\* html = remove_ads_from_html(html): input is the markup of the call, html
\* what it returned, gone the tags of input it decomposed
CallRemoveAds ==
    /\ pure.fn = "remove_ads_from_html"
    /\ pure.applied < MaxPasses
    /\ ~pure.raised
    /\ \E res \in {remove_ads_from_html(pure.html, None)} :
          pure' = [pure EXCEPT !.input = pure.html, !.html = res.value,
                               !.applied = @ + 1, !.raised = res.raised,
                               !.exc = res.exc, !.gone = res.gone,
                               !.stages = res.stages]
    /\ UNCHANGED HandlerVars

RemoveAdsNext == CallRemoveAds

RemoveAdsSpec == RemoveAdsInit /\ [][RemoveAdsNext]_vars

\* the clutter remover has been called on the markup pure.input
Cleaned == pure.fn = "remove_ads_from_html" /\ pure.applied >= 1

FirstPass == pure.fn = "remove_ads_from_html" /\ pure.applied = 1

\* ---- reading the markup
\* no rule of the clutter remover applies to the tag itself
NoAdSignal(n) ==
    /\ n.tag \notin {"iframe", "script", "noscript"}
    /\ n.adattrs = {}
    /\ ~_AD_KEYWORD_RE(TestFields(n))
    /\ \A q \in 1..Len(Selectors) : ~Selects(Selectors[q], n)

\* a tag the fixed rules classify as clutter: a div with class "ad" and
\* less text than SmallText
AdDiv(doc, k) ==
    /\ doc.nodes[k].tag = "div"
    /\ \E t \in 1..Len(doc.nodes[k].class) : doc.nodes[k].class[t] = <<"ad">>
    /\ TextLen(doc, {}, k) < SmallText

\* the other children of the parent of k
Siblings(doc, k) == {j \in Tags(doc) \ {k} : doc.parent[j] = doc.parent[k]}

\* C21: when the markup holds a tag that a fixed rule classifies as clutter
\* (a div with class "ad" and little text) outside any other clutter, the
\* clutter remover returns markup without that tag, and with every sibling of
\* it that is not clutter itself, unchanged.
C21_ClutterRemovedSiblingsKept ==
    FirstPass =>
        \A k \in Tags(pure.input) :
            (/\ AdDiv(pure.input, k)
             /\ \A a \in Ancestors(pure.input, k) : NoAdSignal(pure.input.nodes[a]))
            => /\ ~pure.raised
               /\ k \in pure.gone
               /\ \A j \in Siblings(pure.input, k) :
                     (\A d \in Subtree(pure.input, j) : NoAdSignal(pure.input.nodes[d]))
                     => Subtree(pure.input, j) \cap pure.gone = {}

\* the only ad signal of the tag is a keyword in its class attribute: the
\* keyword pattern matches the class names and nothing else of the tag, and
\* no fixed selector, ad attribute or rule for its tag name applies
OnlyClassKeyword(n) ==
    /\ _AD_KEYWORD_RE(JoinTokens(n.class))
    /\ ~_AD_KEYWORD_RE(n.id \o <<" ">> \o n.role \o <<" ">> \o n.label)
    /\ n.adattrs = {}
    /\ n.tag \notin {"iframe", "script", "noscript"}
    /\ \A q \in 1..Len(Selectors) : ~Selects(Selectors[q], n)

\* tag k reaches the keyword sweep with SmallText characters of text or more
\* and with the class keyword as its only ad signal, outside any removed tag
LongTextKeywordTag(k) ==
    /\ k \in Tags(pure.input)
    /\ OnlyClassKeyword(pure.input.nodes[k])
    /\ k \notin pure.stages[3].gone
    /\ TextLen(pure.input, pure.stages[3].gone, k) >= SmallText
    /\ Ancestors(pure.input, k) \cap pure.gone = {}

C23_ReturnsAndSkipsOnlyFailedStep ==
    Cleaned =>
        /\ ~pure.raised
        /\ \A k \in Tags(pure.input) :
              pure.input.nodes[k].adattrs # {} => k \in pure.gone

\* the value of a width or height attribute is a positive integer below 50
SmallPositive(v) == v # "" /\ ~int(v).raised /\ int(v).value > 0 /\ int(v).value < 50

\* the iframe is an ad by the three tests of step 1, each taken on its own
IframeIsAd(n) ==
    \/ HasAdSrc(n.src) \/ HasAdSrc(n.datasrc)
    \/ SmallPositive(n.width) \/ SmallPositive(n.height)
    \/ _AD_KEYWORD_RE(n.id) \/ _AD_KEYWORD_RE(JoinTokens(n.class))

\* C25: step 1 never raises and removes an iframe exactly when its src or
\* data-src holds an ad-network name, or its width or its height is a
\* positive integer below 50, or its id or class matches the keyword
\* pattern; a width or height that is no integer counts as not small for
\* that dimension only.
C25_IframeRemovedIffAd ==
    FirstPass =>
        /\ ~pure.stages[1].raised
        /\ \A k \in Tags(pure.input) :
              pure.input.nodes[k].tag = "iframe" =>
                  (k \in pure.stages[1].gone <=> IframeIsAd(pure.input.nodes[k]))

\* C26: the steps run in the order 1 to 6, each on the tree the steps before
\* it left, and a tag that was removed, itself or inside a removed tag, is
\* not examined again: when a loop reaches a tag below one it has removed,
\* it passes over that tag and goes on, so no step fails on a removed tag.
C26_RemovedTagsPassedOver ==
    Cleaned =>
        \A s \in 1..Len(StepNames) :
            /\ pure.stages[s].exc # "AttributeError"
            /\ s > 1 => pure.stages[s - 1].gone \subseteq pure.stages[s].gone

\* C30: the clutter remover is idempotent: applied to markup it has
\* returned, it returns and removes no further tag.
C30_RemoveAdsIdempotent ==
    (pure.fn = "remove_ads_from_html" /\ pure.applied >= 2) =>
        ~pure.raised /\ pure.gone = {} /\ pure.html = pure.input

\* ------------------------------------------------ the platform profile cleaner
\* (src/platform_cleanup.py), on the same trees as the clutter remover

\* str.lower() on a word of an address
UrlLowerWord(w) ==
    CASE w = "Medium" -> "medium" [] w = "COM" -> "com"
      [] w = "WordPress" -> "wordpress" [] OTHER -> w

UrlLower(url) == [i \in 1..Len(url) |-> UrlLowerWord(url[i])]

\* url = source_url.lower(), without the lowering
LoweredUrl_AsGiven(source_url) == source_url

\* url = source_url.lower()
LoweredUrl(source_url) == UrlLower(source_url)

medium_classes ==
    << <<"metabar">>, <<"js", "-", "stickyFooter">>,
       <<"branch", "-", "journeys", "-", "top">>, <<"paywallButton">>,
       <<"meteredContent">>, <<"promo">>, <<"upvoteButton">> >>

wordpress_classes ==
    << <<"sidebar">>, <<"widget", "-", "area">>, <<"comment", "-", "list">>,
       <<"comments">>, <<"site", "-", "footer">>,
       <<"wp", "-", "block", "-", "group">>, <<"navigation">>, <<"header">>,
       <<"footer">> >>

blogspot_classes ==
    << <<"header", "-", "inner">>, <<"footer">>, <<"navbar">>, <<"profile">>,
       <<"sidebar">>, <<"comments">> >>

substack_ids ==
    << <<"subscribe", "-", "button">>, <<"paywall">>,
       <<"newsletter", "-", "subscribe">>, <<"post", "-", "meta">>,
       <<"subscription", "-", "widget">> >>

WpContent == <<"wp", "-", "content">>

\* "wp-content" in html: the text occurs somewhere in the markup
MarkupContains(doc, text) ==
    \E j \in Tags(doc) :
        \/ Contains(doc.nodes[j].src, text)
        \/ Contains(JoinTokens(doc.nodes[j].class), text)
        \/ Contains(doc.nodes[j].id, text)
        \/ Contains(doc.nodes[j].words, text)

\* find_all(class_=re.compile(cls)) matches the tag: the pattern is found in
\* one of the class names or in the class attribute as a whole
ClassMatches(n, cls) ==
    \/ \E t \in 1..Len(n.class) : Contains(n.class[t], cls)
    \/ Contains(JoinTokens(n.class), cls)

\* for cls in remove_classes: for tag in soup.find_all(...): tag.decompose()
RECURSIVE RemoveClasses(_, _, _, _)
RemoveClasses(doc, gone, remove_classes, c) ==
    IF c > Len(remove_classes) THEN gone
    ELSE RemoveClasses(doc,
                       DecomposeAll(doc, gone,
                                    {j \in Tags(doc) \ gone :
                                        ClassMatches(doc.nodes[j], remove_classes[c])}),
                       remove_classes, c + 1)

\* for id_ in remove_ids: el = soup.find(id=id_); if el: el.decompose()
RECURSIVE RemoveIds(_, _, _, _)
RemoveIds(doc, gone, remove_ids, i) ==
    IF i > Len(remove_ids) THEN gone
    ELSE LET found == {j \in Tags(doc) \ gone : doc.nodes[j].id = remove_ids[i]}
         IN RemoveIds(doc,
                      IF found = {} THEN gone
                      ELSE Decompose(doc, gone, CHOOSE j \in found : \A x \in found : j <= x),
                      remove_ids, i + 1)

\* the profiles in the order of the code
ProfileNames == <<"medium", "wordpress", "blogspot", "substack">>

\* the condition of the if statement of a profile
ProfileApplies(s, doc, url) ==
    CASE s = 1 -> Contains(url, <<"medium", ".", "com">>)
      [] s = 2 -> Contains(url, <<"wordpress", ".", "com">>) \/ MarkupContains(doc, WpContent)
      [] s = 3 -> Contains(url, <<"blogspot", ".">>)
      [] s = 4 -> Contains(url, <<"substack", ".", "com">>)

\* the tags gone after the if statement of a profile
ProfileFrom(doc, url, gone, s) ==
    IF ~ProfileApplies(s, doc, url) THEN gone
    ELSE CASE s = 1 -> RemoveClasses(doc, gone, medium_classes, 1)
           [] s = 2 -> RemoveClasses(doc, gone, wordpress_classes, 1)
           [] s = 3 -> RemoveClasses(doc, gone, blogspot_classes, 1)
           [] s = 4 -> RemoveIds(doc, gone, substack_ids, 1)

\* the tags gone after each profile
RECURSIVE ProfilesFrom(_, _, _, _)
ProfilesFrom(doc, url, gone, s) ==
    IF s > Len(ProfileNames) THEN <<>>
    ELSE \* one evaluation of the profile, used for its own entry and the rest
         CHOOSE stages \in {<<next>> \o ProfilesFrom(doc, url, next, s + 1) :
                               next \in {ProfileFrom(doc, url, gone, s)}} : TRUE

clean_platform_specific(doc, source_url) ==
    LET Result(stages) ==
            [gone |-> stages[Len(stages)], stages |-> stages,
             value |-> Serialize(doc, stages[Len(stages)])]
    IN CHOOSE res \in {Result(st) : st \in {ProfilesFrom(doc, LoweredUrl(source_url), {}, 1)}} : TRUE

\* ---- the markup and the addresses given to the cleaner
Classed(name, len, class) == [Plain(name, len) EXCEPT !.class = class]

PlatformNodes ==
    { Classed("div", 250, << <<"post">> >>),
      Classed("div", 20, << <<"metabar">>, <<"u", "-", "fixed">> >>),
      Classed("header", 20, << <<"site", "-", "header">> >>),
      Classed("aside", 40, << <<"sidebar">> >>),
      Classed("footer", 20, << <<"Footer">> >>),
      [Plain("div", 30) EXCEPT !.id = <<"paywall">>],
      [Plain("img", 0) EXCEPT !.src = <<"/", "wp", "-", "content", "/", "uploads",
                                        "/", "a", ".", "png">>] }

HostAddress(host) == <<"https", ":", "/", "/", "me", ".">> \o host \o <<"/", "post">>

PlatformAddresses ==
    { <<"https", ":", "/", "/", "Medium", ".", "COM", "/", "post">>,
      HostAddress(<<"wordpress", ".", "com">>),
      HostAddress(<<"blogspot", ".", "co", ".", "uk">>),
      HostAddress(<<"substack", ".", "com">>),
      HostAddress(<<"example", ".", "org">>) }

PlatformInit ==
    /\ Idle
    /\ \E n \in 0..MaxNodes : \E par \in Shapes(n) : \E ns \in [1..n -> PlatformNodes] :
          \E u \in PlatformAddresses :
              /\ IsTree(ns, par)
              /\ pure = [fn |-> "clean_platform_specific",
                         input |-> [nodes |-> ns, parent |-> par],
                         source_url |-> u, returned |-> FALSE,
                         html |-> [nodes |-> ns, parent |-> par],
                         gone |-> {}, stages |-> <<>>]

\* html = clean_platform_specific(html, blog_url)
CallCleanPlatform ==
    /\ pure.fn = "clean_platform_specific"
    /\ ~pure.returned
    /\ \E res \in {clean_platform_specific(pure.input, pure.source_url)} :
          pure' = [pure EXCEPT !.returned = TRUE, !.html = res.value,
                               !.gone = res.gone, !.stages = res.stages]
    /\ UNCHANGED HandlerVars

PlatformNext == CallCleanPlatform

PlatformSpec == PlatformInit /\ [][PlatformNext]_vars

\* ---- reading the outcome of the platform cleaner
\* the address pattern of a profile, in lower case
AddressPattern(s) ==
    CASE s = 1 -> <<"medium", ".", "com">> [] s = 2 -> <<"wordpress", ".", "com">>
      [] s = 3 -> <<"blogspot", ".">> [] s = 4 -> <<"substack", ".", "com">>

\* the profile matches the request: its pattern occurs in the address,
\* whatever the case of the letters, or, for WordPress, wp-content occurs in
\* the markup
ProfileMatches(s) ==
    \/ Contains(UrlLower(pure.source_url), AddressPattern(s))
    \/ s = 2 /\ MarkupContains(pure.input, WpContent)

ClassFragments(s) ==
    CASE s = 1 -> medium_classes [] s = 2 -> wordpress_classes
      [] s = 3 -> blogspot_classes [] s = 4 -> <<>>

\* the profiles that match the request
MatchingProfiles == {s \in 1..Len(ProfileNames) : ProfileMatches(s)}

\* the class fragments of a set of profiles
FragmentsOf(profiles) ==
    UNION {{ClassFragments(s)[c] : c \in 1..Len(ClassFragments(s))} : s \in profiles}

\* a rule of one of the profiles names the tag: a class fragment of theirs
\* occurs in its class attribute, or, with substack, it carries a listed id
NamedBy(profiles, n) ==
    \/ \E cls \in FragmentsOf(profiles) : ClassMatches(n, cls)
    \/ 4 \in profiles /\ \E i \in 1..Len(substack_ids) : n.id = substack_ids[i]

\* the decomposed tags before profile s
GoneBefore(s) == IF s = 1 THEN {} ELSE pure.stages[s - 1]

\* C24: the rules of every profile that matches the address (or, for
\* WordPress, the markup) are applied, in the order medium, wordpress,
\* blogspot, substack: the output holds no tag whose class attribute contains
\* a fragment of a matching profile and not the first tag with a listed id
\* when substack matches; a profile that does not match, or that names no
\* tag, changes nothing.
C24_MatchingProfilesApplied ==
    (pure.fn = "clean_platform_specific" /\ pure.returned) =>
        \A matching \in {MatchingProfiles} :
            LET doc == pure.input
                left == Tags(doc) \ pure.gone
            IN /\ \A k \in left : \A cls \in FragmentsOf(matching) :
                      ~ClassMatches(doc.nodes[k], cls)
               /\ 4 \in matching =>
                      \A i \in 1..Len(substack_ids) : \A k \in Tags(doc) :
                          (/\ doc.nodes[k].id = substack_ids[i]
                           /\ \A j \in 1..(k - 1) : doc.nodes[j].id # substack_ids[i])
                          => k \in pure.gone
               /\ \A g \in pure.gone :
                      \E a \in Ancestors(doc, g) \cup {g} : NamedBy(matching, doc.nodes[a])
               /\ \A s \in 1..Len(ProfileNames) :
                      /\ GoneBefore(s) \subseteq pure.stages[s]
                      /\ s \notin matching => pure.stages[s] = GoneBefore(s)
               /\ pure.html = Serialize(doc, pure.gone)

C24_Witness ==
    /\ pure.fn = "clean_platform_specific" /\ pure.returned
    /\ ProfileMatches(1) /\ ~Contains(pure.source_url, AddressPattern(1))
    /\ \E k, j \in Tags(pure.input) :
          /\ ClassMatches(pure.input.nodes[k], <<"metabar">>)
          /\ k \in pure.gone
          /\ j \notin pure.gone

====
